---- MODULE Spec2Model ----
(***************************************************************************)
(* Model of the coverage reporter (xseman/coverage): the LCOV and Go       *)
(* cover-profile parsers, the diff engine (computeFileDiffs,               *)
(* buildToolReport, buildFullReport).                                      *)
(*                                                                         *)
(* Numbers.  A percentage is held in hundredths of a percentage point      *)
(* (81.25% is 8125), so that "rounded to two decimals" is "an integer".    *)
(* Strings that the code inspects character by character (paths, artifact  *)
(* text, numeric fields) are sequences of one-character strings.           *)
(* A nullable value is Null (<<>>) or Some(v) (<<v>>).                     *)
(***************************************************************************)
EXTENDS Integers, Sequences, FiniteSets, TLC

\* ------------------------------------------------------------------ bounds
MaxHead == 2
MaxBase == 2
MaxTools == 2
MaxLcovLines == 4
MaxGoLines == 3
MaxSaves == 2
MaxRuns == 3
MaxOtherComments == 2

\* ---------------------------------------------------------------- nullable
Null == <<>>
Some(v) == <<v>>
IsNull(o) == o = <<>>
Get(o) == o[1]

\* ----------------------------------------------------------------- numbers
\* Number of hundredths in one percentage point: the "* 100) / 100" of round2.
Scale == 100

\* Math.round(n / d) for d > 0: the nearest integer, a half rounded up.
MathRound(n, d) == (2 * n + d) \div (2 * d)

\* The value parseInt gives for a text with no leading number. It is kept
\* apart from every count of the model; every comparison with it is false and
\* Math.round of it is itself.
NaN == -1000000000

\* isNaN(x)
IsNaN(x) == x = NaN

\* A percent that is 0, not 100, when there is nothing to cover.
PercentZeroWhenEmpty(coveredLines, totalLines) ==
    IF ~IsNaN(totalLines) /\ totalLines > 0
    THEN IF IsNaN(coveredLines) THEN NaN
         ELSE MathRound(coveredLines * 100 * Scale, totalLines)
    ELSE 0

\* totalLines > 0 ? Math.round((coveredLines / totalLines) * 10000) / 100 : 100
\* in hundredths of a point. With the counts of this model (below 32) the
\* quotient is never within a rounding error of a half, so the exact quotient
\* rounds as the floating-point one does.
PercentOf(coveredLines, totalLines) ==
    IF ~IsNaN(totalLines) /\ totalLines > 0
    THEN IF IsNaN(coveredLines) THEN NaN
         ELSE MathRound(coveredLines * 100 * Scale, totalLines)
    ELSE 100 * Scale

\* Math.round((a - b) * 100) / 100 for two percentages a, b in hundredths.
Round2Diff(a, b) == MathRound(a - b, 1)

\* ------------------------------------------------------------------- paths
\* A path is a sequence of one-character strings; the paths of this model are
\* made of ASCII letters.
LowerChars == <<"a", "b", "c", "d", "e", "f", "g", "h", "i", "j", "k", "l", "m",
                "n", "o", "p", "q", "r", "s", "t", "u", "v", "w", "x", "y", "z">>
UpperChars == <<"A", "B", "C", "D", "E", "F", "G", "H", "I", "J", "K", "L", "M",
                "N", "O", "P", "Q", "R", "S", "T", "U", "V", "W", "X", "Y", "Z">>
IsUpper(c) == \E i \in DOMAIN UpperChars : UpperChars[i] = c
\* Place of a letter in the alphabet, case ignored.
LetterIndex(c) ==
    IF IsUpper(c) THEN CHOOSE i \in DOMAIN UpperChars : UpperChars[i] = c
    ELSE CHOOSE i \in DOMAIN LowerChars : LowerChars[i] = c
\* Primary collation weight of a letter: its place in the alphabet.
PrimaryWeight(c) == LetterIndex(c)

RECURSIVE SeqCompare(_, _)
\* Three-way lexicographic comparison of two sequences of weights.
SeqCompare(s, t) ==
    IF s = <<>> /\ t = <<>> THEN 0
    ELSE IF s = <<>> THEN -1
    ELSE IF t = <<>> THEN 1
    ELSE IF Head(s) < Head(t) THEN -1
    ELSE IF Head(s) > Head(t) THEN 1
    ELSE SeqCompare(Tail(s), Tail(t))

\* Tertiary weight: a lowercase letter sorts before its uppercase form.
CaseWeight(c) == IF IsUpper(c) THEN 1 ELSE 0

\* String.prototype.localeCompare in the default (root) collation, on ASCII
\* letters: the primary weights of the whole strings decide first, the case
\* only breaks a primary tie.
localeCompare(a, b) ==
    LET p == SeqCompare([i \in DOMAIN a |-> PrimaryWeight(a[i])],
                        [i \in DOMAIN b |-> PrimaryWeight(b[i])])
    IN  IF p # 0 THEN p
        ELSE SeqCompare([i \in DOMAIN a |-> CaseWeight(a[i])],
                        [i \in DOMAIN b |-> CaseWeight(b[i])])

\* ------------------------------------------------------------ FileCoverage
\* types.ts FileCoverage: { file, coveredLines, totalLines, percent }.
FileCoverage(file, coveredLines, totalLines) ==
    [file |-> file, coveredLines |-> coveredLines, totalLines |-> totalLines,
     percent |-> PercentOf(coveredLines, totalLines)]

\* ------------------------------------------------------------- diff engine
\* A map that keeps the first record of a path instead of the last.
BaseMapFirstWins(baseList) ==
    [p \in {baseList[i].file : i \in DOMAIN baseList} |->
        baseList[CHOOSE i \in DOMAIN baseList :
                    /\ baseList[i].file = p
                    /\ \A j \in DOMAIN baseList : baseList[j].file = p => i <= j]]

\* baseMap after "for (const f of baseFiles) baseMap.set(f.file, f)": a later
\* record of the same path replaces an earlier one.
BaseMapOf(baseList) ==
    [p \in {baseList[i].file : i \in DOMAIN baseList} |->
        baseList[CHOOSE i \in DOMAIN baseList :
                    /\ baseList[i].file = p
                    /\ \A j \in DOMAIN baseList : baseList[j].file = p => j <= i]]

\* baseMap.get(file) ?? null
MapGet(map, file) == IF file \in DOMAIN map THEN Some(map[file]) ELSE Null

\* A head record without base that reports "no change" instead of "no data".
HeadDeltaZeroForNew(head, base) ==
    [file |-> head.file,
     coveredLines |-> head.coveredLines,
     totalLines |-> head.totalLines,
     percent |-> head.percent,
     baseCoveredLines |-> IF IsNull(base) THEN Null ELSE Some(Get(base).coveredLines),
     baseTotalLines |-> IF IsNull(base) THEN Null ELSE Some(Get(base).totalLines),
     basePercent |-> IF IsNull(base) THEN Null ELSE Some(Get(base).percent),
     delta |-> IF IsNull(base) THEN Some(0)
               ELSE Some(Round2Diff(head.percent, Get(base).percent))]

\* The record pushed for one head record (diff.ts 26-33); base is nullable.
HeadDelta(head, base) ==
    [file |-> head.file,
     coveredLines |-> head.coveredLines,
     totalLines |-> head.totalLines,
     percent |-> head.percent,
     baseCoveredLines |-> IF IsNull(base) THEN Null ELSE Some(Get(base).coveredLines),
     baseTotalLines |-> IF IsNull(base) THEN Null ELSE Some(Get(base).totalLines),
     basePercent |-> IF IsNull(base) THEN Null ELSE Some(Get(base).percent),
     delta |-> IF IsNull(base) THEN Null
               ELSE Some(Round2Diff(head.percent, Get(base).percent))]

\* A deleted file scored as "no data" instead of as a loss.
DeletedDeltaNoData(base) ==
    [file |-> base.file,
     coveredLines |-> 0,
     totalLines |-> 0,
     percent |-> 0,
     baseCoveredLines |-> Some(base.coveredLines),
     baseTotalLines |-> Some(base.totalLines),
     basePercent |-> Some(base.percent),
     delta |-> Null]

\* The record pushed for a base record whose path is gone from head (41-50).
DeletedDelta(base) ==
    [file |-> base.file,
     coveredLines |-> 0,
     totalLines |-> 0,
     percent |-> 0,
     baseCoveredLines |-> Some(base.coveredLines),
     baseTotalLines |-> Some(base.totalLines),
     basePercent |-> Some(base.percent),
     delta |-> Some(-base.percent)]

RECURSIVE InsertByFile(_, _)
\* Put r into the sorted list after every element that does not compare greater.
InsertByFile(r, sorted) ==
    IF sorted = <<>> THEN <<r>>
    ELSE IF localeCompare(Head(sorted).file, r.file) <= 0
         THEN <<Head(sorted)>> \o InsertByFile(r, Tail(sorted))
         ELSE <<r>> \o sorted

RECURSIVE SortFrom(_, _)
SortFrom(list, sorted) ==
    IF list = <<>> THEN sorted
    ELSE SortFrom(Tail(list), InsertByFile(Head(list), sorted))

\* A result left in the order it was built in: head records, then deleted ones.
SortSkipped(list) == list

\* result.sort((a, b) => a.file.localeCompare(b.file)): Array.prototype.sort is
\* stable, so records of equal path keep their relative order.
SortByFile(list) == SortFrom(list, <<>>)

\* Deleted files taken from the map of the base, one per path, instead of
\* from the base list.
DeletedDeltasByMap(headFiles, baseFiles) ==
    IF IsNull(baseFiles) THEN <<>>
    ELSE LET headSet == {headFiles[i].file : i \in DOMAIN headFiles}
             baseMap == BaseMapOf(Get(baseFiles))
             last(i) == Get(baseFiles)[i] = baseMap[Get(baseFiles)[i].file]
                        /\ \A j \in DOMAIN Get(baseFiles) :
                              Get(baseFiles)[j].file = Get(baseFiles)[i].file => j <= i
             kept == {i \in DOMAIN Get(baseFiles) :
                        Get(baseFiles)[i].file \notin headSet /\ last(i)}
             gone(b) == b.file \notin headSet
                        /\ \E i \in kept : Get(baseFiles)[i] = b
             deleted == SelectSeq(Get(baseFiles), gone)
         IN  [i \in 1..Cardinality(kept) |-> DeletedDelta(deleted[i])]

\* The synthetic records of the deleted files, in base order (diff.ts 37-53).
DeletedDeltas(headFiles, baseFiles) ==
    IF IsNull(baseFiles) THEN <<>>
    ELSE LET headSet == {headFiles[i].file : i \in DOMAIN headFiles}
             gone(b) == b.file \notin headSet
             deleted == SelectSeq(Get(baseFiles), gone)
         IN  [i \in DOMAIN deleted |-> DeletedDelta(deleted[i])]

\* The records of the head files, in head order (diff.ts 16-34).
HeadDeltas(headFiles, baseFiles) ==
    LET baseMap == IF IsNull(baseFiles) THEN <<>> ELSE BaseMapOf(Get(baseFiles))
    IN  [i \in DOMAIN headFiles |->
            HeadDelta(headFiles[i], MapGet(baseMap, headFiles[i].file))]

\* computeFileDiffs(headFiles, baseFiles), baseFiles nullable.
computeFileDiffs(headFiles, baseFiles) ==
    SortByFile(HeadDeltas(headFiles, baseFiles) \o DeletedDeltas(headFiles, baseFiles))

RECURSIVE SumOf(_)
\* numbers.reduce((s, n) => s + n, 0)
SumOf(numbers) ==
    IF numbers = <<>> THEN 0 ELSE Head(numbers) + SumOf(Tail(numbers))

\* The coveredLines (totalLines) of the records of a list, in order.
CoveredOf(list) == [i \in DOMAIN list |-> list[i].coveredLines]
TotalOf(list) == [i \in DOMAIN list |-> list[i].totalLines]

\* baseArtifact?.files ?? null
BaseFilesOf(baseArtifact) ==
    IF IsNull(baseArtifact) THEN Null ELSE Some(Get(baseArtifact).files)

\* A summary whose percent is the mean of the per-file percentages.
ToolSummaryAveraged(headFiles, baseFiles) ==
    LET coveredLines == SumOf(CoveredOf(headFiles))
        totalLines == SumOf(TotalOf(headFiles))
        percents == [i \in DOMAIN headFiles |-> headFiles[i].percent]
        percent == IF headFiles = <<>> THEN 100 * Scale
                   ELSE MathRound(SumOf(percents), Len(headFiles))
        hasBase == ~IsNull(baseFiles) /\ Len(Get(baseFiles)) > 0
        baseCoveredLines == SumOf(CoveredOf(Get(baseFiles)))
        baseTotalLines == SumOf(TotalOf(Get(baseFiles)))
        basePercent == PercentOf(baseCoveredLines, baseTotalLines)
    IN  [coveredLines |-> coveredLines,
         totalLines |-> totalLines,
         percent |-> percent,
         baseCoveredLines |-> IF hasBase THEN Some(baseCoveredLines) ELSE Null,
         baseTotalLines |-> IF hasBase THEN Some(baseTotalLines) ELSE Null,
         basePercent |-> IF hasBase THEN Some(basePercent) ELSE Null,
         delta |-> IF hasBase THEN Some(Round2Diff(percent, basePercent)) ELSE Null]

\* A summary that compares against an empty base list as well.
ToolSummaryEmptyBase(headFiles, baseFiles) ==
    LET coveredLines == SumOf(CoveredOf(headFiles))
        totalLines == SumOf(TotalOf(headFiles))
        percent == PercentOf(coveredLines, totalLines)
        hasBase == ~IsNull(baseFiles)
        baseCoveredLines == SumOf(CoveredOf(Get(baseFiles)))
        baseTotalLines == SumOf(TotalOf(Get(baseFiles)))
        basePercent == PercentOf(baseCoveredLines, baseTotalLines)
    IN  [coveredLines |-> coveredLines,
         totalLines |-> totalLines,
         percent |-> percent,
         baseCoveredLines |-> IF hasBase THEN Some(baseCoveredLines) ELSE Null,
         baseTotalLines |-> IF hasBase THEN Some(baseTotalLines) ELSE Null,
         basePercent |-> IF hasBase THEN Some(basePercent) ELSE Null,
         delta |-> IF hasBase THEN Some(Round2Diff(percent, basePercent)) ELSE Null]

\* The summary of buildToolReport (diff.ts 71-87).
ToolSummary(headFiles, baseFiles) ==
    LET coveredLines == SumOf(CoveredOf(headFiles))
        totalLines == SumOf(TotalOf(headFiles))
        percent == PercentOf(coveredLines, totalLines)
        hasBase == ~IsNull(baseFiles) /\ Len(Get(baseFiles)) > 0
        baseCoveredLines == SumOf(CoveredOf(Get(baseFiles)))
        baseTotalLines == SumOf(TotalOf(Get(baseFiles)))
        basePercent == PercentOf(baseCoveredLines, baseTotalLines)
    IN  [coveredLines |-> coveredLines,
         totalLines |-> totalLines,
         percent |-> percent,
         baseCoveredLines |-> IF hasBase THEN Some(baseCoveredLines) ELSE Null,
         baseTotalLines |-> IF hasBase THEN Some(baseTotalLines) ELSE Null,
         basePercent |-> IF hasBase THEN Some(basePercent) ELSE Null,
         delta |-> IF hasBase THEN Some(Round2Diff(percent, basePercent)) ELSE Null]

\* A report that carries the counts of the base over when the head is empty.
buildToolReportCarriesBase(tool, headFiles, baseArtifact, warnings) ==
    [tool |-> tool,
     files |-> computeFileDiffs(headFiles, BaseFilesOf(baseArtifact)),
     summary |-> ToolSummary(IF headFiles = <<>> /\ ~IsNull(BaseFilesOf(baseArtifact))
                             THEN Get(BaseFilesOf(baseArtifact)) ELSE headFiles,
                             BaseFilesOf(baseArtifact)),
     warnings |-> warnings]

\* buildToolReport(tool, headFiles, baseArtifact, warnings)
buildToolReport(tool, headFiles, baseArtifact, warnings) ==
    [tool |-> tool,
     files |-> computeFileDiffs(headFiles, BaseFilesOf(baseArtifact)),
     summary |-> ToolSummary(headFiles, BaseFilesOf(baseArtifact)),
     warnings |-> warnings]

\* The summary counts of the tool reports of a list, in order.
SummaryCovered(reports) ==
    [i \in DOMAIN reports |-> reports[i].summary.coveredLines]
SummaryTotal(reports) ==
    [i \in DOMAIN reports |-> reports[i].summary.totalLines]
\* t.summary.baseCoveredLines ?? 0
SummaryBaseCovered(reports) ==
    [i \in DOMAIN reports |->
        IF IsNull(reports[i].summary.baseCoveredLines) THEN 0
        ELSE Get(reports[i].summary.baseCoveredLines)]
\* t.summary.baseTotalLines ?? 0
SummaryBaseTotal(reports) ==
    [i \in DOMAIN reports |->
        IF IsNull(reports[i].summary.baseTotalLines) THEN 0
        ELSE Get(reports[i].summary.baseTotalLines)]

\* An overall summary that falls back to 100 for a base without lines, as the
\* tool summary does, instead of leaving the base out.
OverallSummaryBaseFallback(toolReports) ==
    LET coveredLines == SumOf(SummaryCovered(toolReports))
        totalLines == SumOf(SummaryTotal(toolReports))
        percent == PercentOf(coveredLines, totalLines)
        baseCovered == SumOf(SummaryBaseCovered(toolReports))
        baseTotal == SumOf(SummaryBaseTotal(toolReports))
        basePercent == PercentOf(baseCovered, baseTotal)
        anyBase == \E i \in DOMAIN toolReports :
                      ~IsNull(toolReports[i].summary.baseTotalLines)
    IN  [coveredLines |-> coveredLines,
         totalLines |-> totalLines,
         percent |-> percent,
         basePercent |-> IF anyBase THEN Some(basePercent) ELSE Null,
         delta |-> IF anyBase THEN Some(Round2Diff(percent, basePercent)) ELSE Null]

\* The overall summary of buildFullReport (diff.ts 109-120).
OverallSummary(toolReports) ==
    LET coveredLines == SumOf(SummaryCovered(toolReports))
        totalLines == SumOf(SummaryTotal(toolReports))
        percent == PercentOf(coveredLines, totalLines)
        baseCovered == SumOf(SummaryBaseCovered(toolReports))
        baseTotal == SumOf(SummaryBaseTotal(toolReports))
        basePercent == MathRound(baseCovered * 100 * Scale, baseTotal)
    IN  [coveredLines |-> coveredLines,
         totalLines |-> totalLines,
         percent |-> percent,
         basePercent |-> IF baseTotal > 0 THEN Some(basePercent) ELSE Null,
         delta |-> IF baseTotal > 0 THEN Some(Round2Diff(percent, basePercent)) ELSE Null]

\* buildFullReport(toolReports); generatedAt (the wall clock) is left out.
buildFullReport(toolReports) ==
    [tools |-> toolReports, overall |-> OverallSummary(toolReports)]

\* ----------------------------------------------------------------- strings
\* A text is a sequence of one-character strings; positions are 0-based as in
\* JavaScript.
IsSpace(c) == c \in {" ", "\n", "\t", "\r"}

RECURSIVE TrimStart(_)
TrimStart(s) == IF s # <<>> /\ IsSpace(Head(s)) THEN TrimStart(Tail(s)) ELSE s

RECURSIVE TrimEnd(_)
TrimEnd(s) ==
    IF s # <<>> /\ IsSpace(s[Len(s)]) THEN TrimEnd(SubSeq(s, 1, Len(s) - 1)) ELSE s

\* String.prototype.trim
Trim(s) == TrimEnd(TrimStart(s))

\* s.startsWith(prefix)
StartsWith(s, prefix) ==
    Len(s) >= Len(prefix) /\ SubSeq(s, 1, Len(prefix)) = prefix

\* s.slice(from) and s.slice(from, to) for 0 <= from, to
SliceFrom(s, from) == SubSeq(s, from + 1, Len(s))
Slice(s, from, to) == SubSeq(s, from + 1, to)

\* s.indexOf(sep): 0-based position of the first occurrence of sep, or -1.
IndexOf(s, sep) ==
    LET at == {i \in 1..(Len(s) - Len(sep) + 1) : SubSeq(s, i, i + Len(sep) - 1) = sep}
    IN  IF at = {} THEN -1 ELSE (CHOOSE i \in at : \A j \in at : i <= j) - 1

\* s.lastIndexOf(sep): 0-based position of the last occurrence of sep, or -1.
LastIndexOf(s, sep) ==
    LET at == {i \in 1..(Len(s) - Len(sep) + 1) : SubSeq(s, i, i + Len(sep) - 1) = sep}
    IN  IF at = {} THEN -1 ELSE (CHOOSE i \in at : \A j \in at : i >= j) - 1

RECURSIVE Split(_, _)
\* s.split(sep) for a non-empty separator: the pieces between the occurrences
\* of sep taken left to right; a text without sep is one piece.
Split(s, sep) ==
    LET i == IndexOf(s, sep)
    IN  IF i = -1 THEN <<s>>
        ELSE <<Slice(s, 0, i)>> \o Split(SliceFrom(s, i + Len(sep)), sep)

RECURSIVE Join(_, _)
\* pieces.join(sep)
Join(pieces, sep) ==
    IF pieces = <<>> THEN <<>>
    ELSE IF Len(pieces) = 1 THEN pieces[1]
    ELSE pieces[1] \o sep \o Join(Tail(pieces), sep)

DigitChars == <<"0", "1", "2", "3", "4", "5", "6", "7", "8", "9">>
IsDigit(c) == \E i \in DOMAIN DigitChars : DigitChars[i] = c
DigitValue(c) == (CHOOSE i \in DOMAIN DigitChars : DigitChars[i] = c) - 1

RECURSIVE DigitsValue(_, _)
\* The value of the longest prefix of digits of s, after the digits read so far.
DigitsValue(s, acc) ==
    IF s # <<>> /\ IsDigit(Head(s))
    THEN DigitsValue(Tail(s), 10 * acc + DigitValue(Head(s)))
    ELSE acc

\* parseInt(s, 10): leading white space is skipped, then an optional sign,
\* then the longest run of digits; NaN when there is no digit.
ParseInt(s) ==
    LET t == TrimStart(s)
        signed == t # <<>> /\ Head(t) \in {"-", "+"}
        digits == IF signed THEN Tail(t) ELSE t
    IN  IF digits = <<>> \/ ~IsDigit(Head(digits)) THEN NaN
        ELSE IF signed /\ Head(t) = "-" THEN -DigitsValue(digits, 0)
        ELSE DigitsValue(digits, 0)

\* ------------------------------------------------------------- LCOV parser
EndOfRecord == <<"e", "n", "d", "_", "o", "f", "_", "r", "e", "c", "o", "r", "d">>
Newline == <<"\n">>

\* The block-local variables of parseLcov before the first line (26-32).
LcovBlockStart ==
    [file |-> Null, coveredLines |-> 0, totalLines |-> 0,
     lhProvided |-> Null, lfProvided |-> Null]

\* A DA line that adds its execution count, not 1, to coveredLines.
LcovDAAddsCount(b, line) ==
    LET parts == Split(SliceFrom(line, 3), <<",">>)
        count == ParseInt(parts[2])
    IN  IF Len(parts) >= 2
        THEN [b EXCEPT !.totalLines = @ + 1,
                       !.coveredLines =
                           IF ~IsNaN(count) /\ count > 0 THEN @ + count ELSE @]
        ELSE b

\* A DA line that is skipped altogether when its count is malformed.
LcovDASkipsMalformed(b, line) ==
    LET parts == Split(SliceFrom(line, 3), <<",">>)
        count == ParseInt(parts[2])
    IN  IF Len(parts) >= 2 /\ ~IsNaN(count)
        THEN [b EXCEPT !.totalLines = @ + 1,
                       !.coveredLines = IF count > 0 THEN @ + 1 ELSE @]
        ELSE b

\* One DA line (37-49): "DA:<line>,<count>[,<checksum>]".
LcovDA(b, line) ==
    LET parts == Split(SliceFrom(line, 3), <<",">>)
        count == ParseInt(parts[2])
    IN  IF Len(parts) >= 2
        THEN [b EXCEPT !.totalLines = @ + 1,
                       !.coveredLines =
                           IF ~IsNaN(count) /\ count > 0 THEN @ + 1 ELSE @]
        ELSE b

\* One line of a block (35-54).
LcovLine(b, line) ==
    IF StartsWith(line, <<"S", "F", ":">>)
    THEN [b EXCEPT !.file = Some(Trim(SliceFrom(line, 3)))]
    ELSE IF StartsWith(line, <<"D", "A", ":">>) THEN LcovDA(b, line)
    ELSE IF StartsWith(line, <<"L", "H", ":">>)
    THEN [b EXCEPT !.lhProvided = Some(ParseInt(SliceFrom(line, 3)))]
    ELSE IF StartsWith(line, <<"L", "F", ":">>)
    THEN [b EXCEPT !.lfProvided = Some(ParseInt(SliceFrom(line, 3)))]
    ELSE b

RECURSIVE LcovLines(_, _)
\* for (const line of lines) ...
LcovLines(b, lines) ==
    IF lines = <<>> THEN b ELSE LcovLines(LcovLine(b, Head(lines)), Tail(lines))

\* A fallback that takes LH/LF whenever LF is present, DA lines or not.
LcovFallbackAlways(b) ==
    IF ~IsNull(b.lfProvided)
    THEN [b EXCEPT !.totalLines = Get(b.lfProvided),
                   !.coveredLines = IF IsNull(b.lhProvided) THEN 0
                                    ELSE Get(b.lhProvided)]
    ELSE b

\* Prefer DA-derived counts, but fall back to LH/LF when no DA line was
\* counted (60-63).
LcovFallback(b) ==
    IF b.totalLines = 0 /\ ~IsNull(b.lfProvided)
    THEN [b EXCEPT !.totalLines = Get(b.lfProvided),
                   !.coveredLines = IF IsNull(b.lhProvided) THEN 0
                                    ELSE Get(b.lhProvided)]
    ELSE b

\* The records one block adds to results: none or one (21-69).
LcovRecord(record) ==
    LET trimmed == Trim(record)
        split == Split(trimmed, Newline)
        lines == [i \in DOMAIN split |-> Trim(split[i])]
        b == LcovLines(LcovBlockStart, lines)
        c == LcovFallback(b)
    IN  IF trimmed = <<>> THEN <<>>
        ELSE IF IsNull(b.file) \/ Get(b.file) = <<>> THEN <<>>
        ELSE <<FileCoverage(Get(c.file), c.coveredLines, c.totalLines)>>

RECURSIVE LcovRecordsMerged(_)
\* A record loop that keeps only the last record of a repeated path.
LcovRecordsMerged(records) ==
    IF records = <<>> THEN <<>>
    ELSE LET rest == LcovRecordsMerged(Tail(records))
             this == LcovRecord(Head(records))
             repeated == /\ this # <<>>
                         /\ \E i \in DOMAIN rest : rest[i].file = this[1].file
         IN  IF repeated THEN rest ELSE this \o rest

RECURSIVE LcovRecords(_)
LcovRecords(records) ==
    IF records = <<>> THEN <<>>
    ELSE LcovRecord(Head(records)) \o LcovRecords(Tail(records))

\* parseLcov(content)
parseLcov(content) == LcovRecords(Split(content, EndOfRecord))

\* --------------------------------------------------------- Go cover parser
\* A line whose hit count, not its statement count, is added to covered.
GoLineAddsCount(fileMap, raw) ==
    LET line == Trim(raw)
        spaceIdx == LastIndexOf(line, <<" ">>)
        rest == Slice(line, 0, spaceIdx)
        spaceIdx2 == LastIndexOf(rest, <<" ">>)
        fileRange == Slice(rest, 0, spaceIdx2)
        colonIdx == IndexOf(fileRange, <<":">>)
        file == Slice(fileRange, 0, colonIdx)
        numStmts == ParseInt(SliceFrom(rest, spaceIdx2 + 1))
        count == ParseInt(SliceFrom(line, spaceIdx + 1))
        known == \E i \in DOMAIN fileMap : fileMap[i].file = file
        entries == IF known THEN fileMap
                   ELSE Append(fileMap, [file |-> file, covered |-> 0, total |-> 0])
        add(e) == IF e.file # file THEN e
                  ELSE [e EXCEPT !.total = @ + numStmts,
                                 !.covered = IF count > 0 THEN @ + count ELSE @]
    IN  IF line = <<>> \/ StartsWith(line, <<"m", "o", "d", "e", ":">>) THEN fileMap
        ELSE IF spaceIdx = -1 \/ spaceIdx2 = -1 \/ colonIdx = -1 THEN fileMap
        ELSE IF IsNaN(numStmts) \/ IsNaN(count) THEN fileMap
        ELSE [i \in DOMAIN entries |-> add(entries[i])]

\* fileMap after one more line (22-57); fileMap is kept as the list of its
\* entries in insertion order, which is the order a Map iterates in.
GoLine(fileMap, raw) ==
    LET line == Trim(raw)
        spaceIdx == LastIndexOf(line, <<" ">>)
        countStr == SliceFrom(line, spaceIdx + 1)
        rest == Slice(line, 0, spaceIdx)
        spaceIdx2 == LastIndexOf(rest, <<" ">>)
        numStmtsStr == SliceFrom(rest, spaceIdx2 + 1)
        fileRange == Slice(rest, 0, spaceIdx2)
        colonIdx == IndexOf(fileRange, <<":">>)
        file == Slice(fileRange, 0, colonIdx)
        numStmts == ParseInt(numStmtsStr)
        count == ParseInt(countStr)
        known == \E i \in DOMAIN fileMap : fileMap[i].file = file
        entries == IF known THEN fileMap
                   ELSE Append(fileMap, [file |-> file, covered |-> 0, total |-> 0])
        add(e) == IF e.file # file THEN e
                  ELSE [e EXCEPT !.total = @ + numStmts,
                                 !.covered = IF count > 0 THEN @ + numStmts ELSE @]
    IN  IF line = <<>> THEN fileMap
        ELSE IF StartsWith(line, <<"m", "o", "d", "e", ":">>) THEN fileMap
        ELSE IF spaceIdx = -1 THEN fileMap
        ELSE IF spaceIdx2 = -1 THEN fileMap
        ELSE IF colonIdx = -1 THEN fileMap
        ELSE IF IsNaN(numStmts) \/ IsNaN(count) THEN fileMap
        ELSE [i \in DOMAIN entries |-> add(entries[i])]

RECURSIVE GoLines(_, _)
\* for (const raw of lines) ...
GoLines(fileMap, lines) ==
    IF lines = <<>> THEN fileMap ELSE GoLines(GoLine(fileMap, Head(lines)), Tail(lines))

GoRecord(e) == FileCoverage(e.file, e.covered, e.total)

\* A parseGoCover that returns the records in the order the files first appear.
parseGoCoverUnsorted(content) ==
    LET fileMap == GoLines(<<>>, Split(content, Newline))
    IN  [i \in DOMAIN fileMap |-> GoRecord(fileMap[i])]

\* parseGoCover(content)
parseGoCover(content) ==
    LET fileMap == GoLines(<<>>, Split(content, Newline))
    IN  SortByFile([i \in DOMAIN fileMap |-> GoRecord(fileMap[i])])

\* ---------------------------------------------------------------- renderer
\* String(n) of a non-negative integer, digit by digit.
RECURSIVE DigitString(_)
DigitString(n) ==
    IF n < 10 THEN <<DigitChars[n + 1]>>
    ELSE DigitString(n \div 10) \o <<DigitChars[(n % 10) + 1]>>

\* String(n) of a count.
String(n) ==
    IF IsNaN(n) THEN <<"N", "a", "N">>
    ELSE IF n < 0 THEN <<"-">> \o DigitString(-n)
    ELSE DigitString(n)

\* x.toFixed(2) of a percentage x kept in hundredths.
ToFixed2(x) ==
    IF IsNaN(x) THEN <<"N", "a", "N">>
    ELSE LET abs == IF x < 0 THEN -x ELSE x
             sign == IF x < 0 THEN <<"-">> ELSE <<>>
         IN  sign \o DigitString(abs \div Scale) \o <<".">>
                  \o DigitString((abs % Scale) \div 10) \o DigitString(abs % 10)

\* " ".repeat(n)
RECURSIVE Spaces(_)
Spaces(n) == IF n <= 0 THEN <<>> ELSE <<" ">> \o Spaces(n - 1)

\* s.padStart(width)
PadStart(s, width) == Spaces(width - Len(s)) \o s

\* pad(n, width): String(n) right-aligned in width columns.
pad(n, width) == PadStart(String(n), width)

\* c.toUpperCase() of one character.
ToUpperCase(c) ==
    IF \E i \in DOMAIN LowerChars : LowerChars[i] = c
    THEN UpperChars[CHOOSE i \in DOMAIN LowerChars : LowerChars[i] = c]
    ELSE c

\* A deltaStr that marks a zero delta as an increase when colorized.
deltaStrZeroMarked(delta, colorize) ==
    IF IsNull(delta) THEN <<>>
    ELSE LET d == Get(delta)
             sign == IF ~IsNaN(d) /\ d >= 0 THEN <<"+">> ELSE <<>>
             pct == sign \o ToFixed2(d) \o <<"%">>
         IN  IF ~colorize THEN <<" ", "(">> \o pct \o <<")">>
             ELSE IF ~IsNaN(d) /\ d >= 0 THEN <<" ", "[", "+", "]", " ">> \o pct
             ELSE IF ~IsNaN(d) /\ d < 0 THEN <<" ", "[", "-", "]", " ">> \o pct
             ELSE <<>>

\* deltaStr(delta, colorize), delta nullable (13-21).
deltaStr(delta, colorize) ==
    IF IsNull(delta) THEN <<>>
    ELSE LET d == Get(delta)
             sign == IF ~IsNaN(d) /\ d >= 0 THEN <<"+">> ELSE <<>>
             pct == sign \o ToFixed2(d) \o <<"%">>
         IN  IF ~colorize THEN <<" ", "(">> \o pct \o <<")">>
             ELSE IF ~IsNaN(d) /\ d > 0 THEN <<" ", "[", "+", "]", " ">> \o pct
             ELSE IF ~IsNaN(d) /\ d < 0 THEN <<" ", "[", "-", "]", " ">> \o pct
             ELSE <<>>

\* Math.max(...numbers, 1)
MaxOrOne(numbers) ==
    IF numbers = <<>> THEN 1
    ELSE LET S == {numbers[i] : i \in DOMAIN numbers} \cup {1}
         IN  CHOOSE m \in S : \A n \in S : n <= m

\* One file row (44-48).
FileRow(f, maxCovered, maxTotal, colorize) ==
    PadStart(ToFixed2(f.percent) \o <<"%">>, 7) \o <<" ", "(">>
        \o pad(f.coveredLines, maxCovered) \o <<"/">> \o pad(f.totalLines, maxTotal)
        \o <<")", " ">> \o f.file \o deltaStr(f.delta, colorize)

\* The lines of the warnings (30-32).
WarningLines(warnings) ==
    [i \in DOMAIN warnings |-> <<"W", "A", "R", "N", "I", "N", "G", ":", " ">> \o warnings[i]]

\* renderToolSection(report, colorize) (25-58).
renderToolSection(report, colorize) ==
    LET toolLabel == IF report.tool = <<>> THEN <<>>
                     ELSE <<ToUpperCase(Head(report.tool))>> \o Tail(report.tool)
        warned == WarningLines(report.warnings)
        maxCovered == MaxOrOne([i \in DOMAIN report.files |->
                                   Len(String(report.files[i].coveredLines))])
        maxTotal == MaxOrOne([i \in DOMAIN report.files |->
                                 Len(String(report.files[i].totalLines))])
        rows == [i \in DOMAIN report.files |->
                    FileRow(report.files[i], maxCovered, maxTotal, colorize)]
        s == report.summary
        summaryLine == toolLabel \o <<" ", "C", "o", "v", "e", "r", "a", "g", "e", ":", " ">> \o ToFixed2(s.percent) \o <<"%">>
                           \o deltaStr(s.delta, colorize)
    IN  IF Len(report.files) = 0 /\ Len(report.warnings) > 0
        THEN Join(warned \o <<<<>>>>, Newline)
        ELSE Join(warned \o rows \o <<<<>>, summaryLine>>, Newline)

\* diff.ts CoverageReport with its generatedAt (122-126).
CoverageReport(toolReports, generatedAt) ==
    [tools |-> buildFullReport(toolReports).tools,
     overall |-> buildFullReport(toolReports).overall,
     generatedAt |-> generatedAt]

\* The character U+0060 of the code fences, which a TLA+ string cannot hold.
Backtick == "U+0060"

\* The fenced blocks of the tools (72-76).
RECURSIVE ToolParts(_, _)
ToolParts(tools, colorize) ==
    IF tools = <<>> THEN <<>>
    ELSE <<<<Backtick, Backtick, Backtick>>,
           renderToolSection(Head(tools), colorize),
           <<Backtick, Backtick, Backtick, "\n">>>>
             \o ToolParts(Tail(tools), colorize)

\* The overall line (80-82).
TotalLine(report, colorize) ==
    <<"*", "*", "T", "o", "t", "a", "l", " ", "C", "o", "v", "e", "r", "a", "g", "e", ":", " ">> \o ToFixed2(report.overall.percent) \o <<"%">>
        \o deltaStr(report.overall.delta, colorize) \o <<"*", "*", "\n">>

\* The footer (85-88).
Footer(report) ==
    <<<<"-", "-", "-">>,
      <<"<", "s", "u", "b", ">", "G", "e", "n", "e", "r", "a", "t", "e", "d", " ", "a", "t", " ">> \o report.generatedAt
          \o <<" ", "b", "y", " ", "<", "a", " ", "h", "r", "e", "f", "=", "\"", "h", "t", "t", "p", "s", ":", "/", "/", "g", "i", "t", "h", "u", "b", ".", "c", "o", "m", "/", "x", "s", "e", "m", "a", "n", "/", "c", "o", "v", "e", "r", "a", "g", "e", "\"", ">", "c", "o", "v", "e", "r", "a", "g", "e", "<", "/", "a", ">", "<", "/", "s", "u", "b", ">">>>>

\* A renderReport that prints the overall line for a single tool as well.
renderReportAlwaysTotal(report, marker, colorize) ==
    Join(<<marker, <<"#", "#", " ", "C", "o", "v", "e", "r", "a", "g", "e", " ", "R", "e", "p", "o", "r", "t", "\n">>>>
             \o ToolParts(report.tools, colorize)
             \o (IF Len(report.tools) >= 1 THEN <<TotalLine(report, colorize)>> ELSE <<>>)
             \o Footer(report),
         Newline)

\* renderReport(report, marker, colorize) (62-91).
renderReport(report, marker, colorize) ==
    Join(<<marker, <<"#", "#", " ", "C", "o", "v", "e", "r", "a", "g", "e", " ", "R", "e", "p", "o", "r", "t", "\n">>>>
             \o ToolParts(report.tools, colorize)
             \o (IF Len(report.tools) > 1 THEN <<TotalLine(report, colorize)>> ELSE <<>>)
             \o Footer(report),
         Newline)

\* text.includes(part)
Includes(text, part) == IndexOf(text, part) # -1

\* ---------------------------------------------------------- snapshot store
\* types.ts CoverageArtifact, as cache.ts saveArtifact builds it (timestamp left out).
CoverageArtifact(tool, files, commitSha, branch) ==
    [tool |-> tool, files |-> files, commitSha |-> commitSha, branch |-> branch]

\* cache.ts CACHE_DIR and artifactPath(tool).
CACHE_DIR == <<".", "c", "o", "v", "e", "r", "a", "g", "e", "-", "r", "e", "p", "o", "r", "t", "e", "r", "-", "c", "a", "c", "h", "e">>
artifactPath(tool) == CACHE_DIR \o <<"/">> \o tool \o <<".", "j", "s", "o", "n">>

\* JSON.parse(JSON.stringify(n)) of a number: NaN is written as null.
JsonNumber(n) == IF IsNaN(n) THEN Null ELSE n

\* JSON.parse(JSON.stringify(artifact)) of a CoverageArtifact.
JsonRoundTrip(artifact) ==
    [artifact EXCEPT !.files =
        [i \in DOMAIN artifact.files |->
            [file |-> artifact.files[i].file,
             coveredLines |-> JsonNumber(artifact.files[i].coveredLines),
             totalLines |-> JsonNumber(artifact.files[i].totalLines),
             percent |-> JsonNumber(artifact.files[i].percent)]]]

\* cache.restoreCache([path], key, restoreKeys) of @actions/cache on the
\* entries saved for the same path: the entry of the exact key, else for each
\* restore key in order the most recently saved entry whose key starts with
\* it; Null on a miss.
RECURSIVE restoreCache(_, _, _, _)
restoreCache(entries, path, key, restoreKeys) ==
    LET own == {i \in DOMAIN entries : entries[i].path = path}
        exact == {i \in own : entries[i].key = key}
        byPrefix == IF restoreKeys = <<>> THEN {}
                    ELSE {i \in own : StartsWith(entries[i].key, Head(restoreKeys))}
    IN  IF exact # {} THEN Some(entries[CHOOSE i \in exact : TRUE])
        ELSE IF restoreKeys = <<>> THEN Null
        ELSE IF byPrefix # {}
        THEN Some(entries[CHOOSE i \in byPrefix : \A j \in byPrefix : j <= i])
        ELSE restoreCache(entries, path, key, Tail(restoreKeys))

\* cache.saveCache([path], key): a key that is already saved is refused and
\* its entry kept.
saveCache(entries, path, key, data) ==
    IF \E i \in DOMAIN entries : entries[i].path = path /\ entries[i].key = key
    THEN entries
    ELSE Append(entries, [path |-> path, key |-> key, data |-> data])

\* What a restored file holds when it is not the JSON of an artifact, and
\* whether JSON.parse(raw) gives an artifact (37); when it throws, the catch
\* (42) gives null.
Unparsable == [unparsable |-> TRUE]
IsArtifact(data) == "files" \in DOMAIN data

\* restoreBaseArtifact(tool, cacheKeyPrefix, baseBranch) (25-46); up is
\* whether the store answers (a failure is caught and gives null).
restoreBaseArtifact(entries, up, tool, cacheKeyPrefix, baseBranch) ==
    LET path == artifactPath(tool)
        key == Join(<<cacheKeyPrefix, tool, baseBranch>>, <<"-">>)
        restoreKeys == <<Join(<<cacheKeyPrefix, tool, <<>>>>, <<"-">>)>>
        hit == restoreCache(entries, path, key, restoreKeys)
    IN  IF ~up \/ IsNull(hit) \/ ~IsArtifact(Get(hit).data) THEN Null
        ELSE Some(Get(hit).data)

\* saveArtifact(tool, files, commitSha, branch, cacheKeyPrefix) (52-82): the
\* store after the call; a failure of the store is caught.
saveArtifact(entries, up, tool, files, commitSha, branch, cacheKeyPrefix) ==
    LET artifact == CoverageArtifact(tool, files, commitSha, branch)
        path == artifactPath(tool)
        key == Join(<<cacheKeyPrefix, tool, branch, commitSha>>, <<"-">>)
    IN  IF up THEN saveCache(entries, path, key, JsonRoundTrip(artifact))
        ELSE entries

\* ------------------------------------------------------------ comment sink
\* per_page of the paginated listing.
PerPage == 100

\* The pages of the listing of the comments, in creation order.
RECURSIVE Pages(_)
Pages(list) ==
    IF list = <<>> THEN <<>>
    ELSE IF Len(list) <= PerPage THEN <<list>>
    ELSE <<SubSeq(list, 1, PerPage)>> \o Pages(SubSeq(list, PerPage + 1, Len(list)))

\* The id of the first comment of a page whose body is not empty and
\* includes the marker, or Null (30-35).
FirstInPage(page, marker) ==
    LET found == {i \in DOMAIN page :
                     page[i].body # <<>> /\ Includes(page[i].body, marker)}
    IN  IF found = {} THEN Null
        ELSE Some(page[CHOOSE i \in found : \A j \in found : i <= j].id)

\* existingCommentId after the loop over the pages (24-37).
RECURSIVE FindExisting(_, _)
FindExisting(pages, marker) ==
    IF pages = <<>> THEN Null
    ELSE IF ~IsNull(FirstInPage(Head(pages), marker))
              /\ Get(FirstInPage(Head(pages), marker)) # 0
    THEN FirstInPage(Head(pages), marker)
    ELSE FindExisting(Tail(pages), marker)

\* The id the platform gives to a new comment.
NewCommentId(list) ==
    IF list = <<>> THEN 1
    ELSE 1 + (CHOOSE m \in {list[i].id : i \in DOMAIN list} :
                 \A i \in DOMAIN list : list[i].id <= m)

\* An upsertComment that never looks for an existing comment.
upsertCommentAlwaysCreates(list, marker, body) ==
    [comments |-> Append(list, [id |-> NewCommentId(list), body |-> body]),
     result |-> [commentId |-> NewCommentId(list), created |-> TRUE]]

\* upsertComment(token, marker, body, prNumber) (12-57): the comments of the
\* pull request after the call, and the result.
upsertComment(list, marker, body) ==
    LET existingCommentId == FindExisting(Pages(list), marker)
    IN  IF ~IsNull(existingCommentId)
        THEN [comments |-> [i \in DOMAIN list |->
                               IF list[i].id = Get(existingCommentId)
                               THEN [list[i] EXCEPT !.body = body] ELSE list[i]],
              result |-> [commentId |-> Get(existingCommentId), created |-> FALSE]]
        ELSE [comments |-> Append(list, [id |-> NewCommentId(list), body |-> body]),
              result |-> [commentId |-> NewCommentId(list), created |-> TRUE]]

\* ------------------------------------------------------------ orchestrator
\* The tool identifiers, as texts: those parseFile knows, and one it does
\* not know.
BunTool == <<"b", "u", "n">>
GoTool == <<"g", "o">>
LcovTool == <<"l", "c", "o", "v">>
GocoverTool == <<"g", "o", "c", "o", "v", "e", "r">>
ZigTool == <<"z", "i", "g">>

\* String.prototype.toLowerCase on one character and on a text.
ToLowerCase(c) == IF IsUpper(c) THEN LowerChars[LetterIndex(c)] ELSE c
LowerCased(s) == [i \in DOMAIN s |-> ToLowerCase(s[i])]

RECURSIVE SplitEntries(_, _)
\* raw.split(/[\n,]+/): the pieces between the runs of newlines and commas;
\* piece is the piece being read.
SplitEntries(raw, piece) ==
    IF raw = <<>> THEN <<piece>>
    ELSE IF Head(raw) \in {"\n", ","}
    THEN IF Len(raw) > 1 /\ raw[2] \in {"\n", ","}
         THEN SplitEntries(Tail(raw), piece)
         ELSE <<piece>> \o SplitEntries(Tail(raw), <<>>)
    ELSE SplitEntries(Tail(raw), Append(piece, Head(raw)))

\* .map((s) => s.trim()).filter(Boolean)
TrimmedEntries(raw) ==
    LET pieces == SplitEntries(raw, <<>>)
        trimmed == [i \in DOMAIN pieces |-> Trim(pieces[i])]
        given(e) == e # <<>>
    IN  SelectSeq(trimmed, given)

\* The ArtifactInput of one entry that has a colon (126-129).
ArtifactInput(entry) ==
    LET colonIdx == IndexOf(entry, <<":">>)
    IN  [tool |-> LowerCased(Trim(Slice(entry, 0, colonIdx))),
         path |-> Trim(SliceFrom(entry, colonIdx + 1))]

\* A parseArtifactInputs that leaves out the entries without a colon.
parseArtifactInputsLenient(raw) ==
    LET hasColon(e) == IndexOf(e, <<":">>) # -1
        entries == SelectSeq(TrimmedEntries(raw), hasColon)
    IN  Some([i \in DOMAIN entries |-> ArtifactInput(entries[i])])

\* parseArtifactInputs(raw) (114-131): Null when it throws, which it does
\* for an entry without a colon.
parseArtifactInputs(raw) ==
    LET entries == TrimmedEntries(raw)
    IN  IF \E i \in DOMAIN entries : IndexOf(entries[i], <<":">>) = -1
        THEN Null
        ELSE Some([i \in DOMAIN entries |-> ArtifactInput(entries[i])])

\* A parseFile that reports nothing about an artifact it cannot use.
parseFileSilent(tool, filePath, file) ==
    IF ~file.exists \/ ~file.readable \/ Trim(file.content) = <<>>
    THEN [files |-> <<>>, warnings |-> <<>>]
    ELSE IF tool \in {BunTool, LcovTool}
    THEN [files |-> parseLcov(file.content), warnings |-> <<>>]
    ELSE IF tool \in {GoTool, GocoverTool}
    THEN [files |-> parseGoCover(file.content), warnings |-> <<>>]
    ELSE [files |-> <<>>, warnings |-> <<>>]

\* parseFile(tool, filePath) (133-172) on a file that may be missing (exists
\* false), unreadable (readable false, with the message of the error) or
\* holds content: the head records and the warnings.
parseFile(tool, filePath, file) ==
    IF ~file.exists
    THEN [files |-> <<>>,
          warnings |-> <<<<"A", "r", "t", "i", "f", "a", "c", "t", " ", "f", "i", "l", "e", " ", "n", "o", "t", " ", "f", "o", "u", "n", "d", ":", " ">> \o <<Backtick>> \o filePath
                            \o <<Backtick>>>>]
    ELSE IF ~file.readable
    THEN [files |-> <<>>,
          warnings |-> <<<<"C", "o", "u", "l", "d", " ", "n", "o", "t", " ", "r", "e", "a", "d", " ">> \o <<Backtick>> \o filePath
                            \o <<Backtick>> \o <<":", " ">> \o file.message>>]
    ELSE IF Trim(file.content) = <<>>
    THEN [files |-> <<>>,
          warnings |-> <<<<"A", "r", "t", "i", "f", "a", "c", "t", " ", "f", "i", "l", "e", " ", "i", "s", " ", "e", "m", "p", "t", "y", ":", " ">> \o <<Backtick>> \o filePath
                            \o <<Backtick>>>>]
    ELSE IF tool \in {BunTool, LcovTool}
    THEN [files |-> parseLcov(file.content), warnings |-> <<>>]
    ELSE IF tool \in {GoTool, GocoverTool}
    THEN [files |-> parseGoCover(file.content), warnings |-> <<>>]
    ELSE [files |-> <<>>,
          warnings |-> <<<<"U", "n", "k", "n", "o", "w", "n", " ", "t", "o", "o", "l", " ", "\"">> \o tool
                            \o <<"\"", ".", " ", "S", "u", "p", "p", "o", "r", "t", "e", "d", ":", " ", "b", "u", "n", ",", " ", "l", "c", "o", "v", ",", " ", "g", "o", ",", " ", "g", "o", "c", "o", "v", "e", "r", ".">>>>]

\* ---------------------------------------------------------- event context
\* context.ts resolvePrNumber(inputOverride, token, context) (15-67). The
\* context is its eventName, payload.pull_request (nullable, with a nullable
\* number) and payload.workflow_run (nullable, with nullable pull_requests
\* and head_branch); listed is what octokit.rest.pulls.list answers when it
\* is called: Null when the call throws, else the numbers of the open pull
\* requests of the head branch. undefined is Null.

\* A chain that asks the event before the override.
resolvePrNumberEventFirst(inputOverride, token, context, listed) ==
    LET n == ParseInt(inputOverride)
        run == context.workflowRun
    IN  IF /\ context.eventName \in {<<"p", "u", "l", "l", "_", "r", "e", "q", "u", "e", "s", "t">>, <<"p", "u", "l", "l", "_", "r", "e", "q", "u", "e", "s", "t", "_", "t", "a", "r", "g", "e", "t">>}
           /\ ~IsNull(context.pullRequest)
           /\ ~IsNull(Get(context.pullRequest).number)
        THEN Get(context.pullRequest).number
        ELSE IF inputOverride # <<>> /\ ~IsNaN(n) /\ n > 0 THEN Some(n)
        ELSE IF context.eventName = <<"w", "o", "r", "k", "f", "l", "o", "w", "_", "r", "u", "n">>
        THEN IF /\ ~IsNull(run)
                /\ ~IsNull(Get(run).pull_requests)
                /\ Len(Get(Get(run).pull_requests)) > 0
             THEN Some(Get(Get(run).pull_requests)[1])
             ELSE IF /\ token # <<>>
                     /\ ~IsNull(run)
                     /\ ~IsNull(Get(run).head_branch)
                     /\ Get(Get(run).head_branch) # <<>>
                     /\ ~IsNull(listed)
                     /\ Len(Get(listed)) > 0
             THEN Some(Get(listed)[1])
             ELSE Null
        ELSE Null

resolvePrNumber(inputOverride, token, context, listed) ==
    LET n == ParseInt(inputOverride)
        run == context.workflowRun
    IN  IF inputOverride # <<>> /\ ~IsNaN(n) /\ n > 0 THEN Some(n)
        ELSE IF /\ context.eventName \in {<<"p", "u", "l", "l", "_", "r", "e", "q", "u", "e", "s", "t">>, <<"p", "u", "l", "l", "_", "r", "e", "q", "u", "e", "s", "t", "_", "t", "a", "r", "g", "e", "t">>}
                /\ ~IsNull(context.pullRequest)
                /\ ~IsNull(Get(context.pullRequest).number)
        THEN Get(context.pullRequest).number
        ELSE IF context.eventName = <<"w", "o", "r", "k", "f", "l", "o", "w", "_", "r", "u", "n">>
        THEN IF /\ ~IsNull(run)
                /\ ~IsNull(Get(run).pull_requests)
                /\ Len(Get(Get(run).pull_requests)) > 0
             THEN Some(Get(Get(run).pull_requests)[1])
             ELSE IF /\ token # <<>>
                     /\ ~IsNull(run)
                     /\ ~IsNull(Get(run).head_branch)
                     /\ Get(Get(run).head_branch) # <<>>
                     /\ ~IsNull(listed)
                     /\ Len(Get(listed)) > 0
             THEN Some(Get(listed)[1])
             ELSE Null
        ELSE Null

\* ------------------------------------------------------------------ inputs
\* The paths of the inputs: "a", "B", "c".
Paths == {<<"a">>, <<"B">>, <<"c">>}

\* The (coveredLines, totalLines) of the input records: nothing to cover,
\* one line in three (33.33%), fully covered.
CountPairs == {<<0, 0>>, <<1, 3>>, <<2, 2>>}

\* The records a parser can have produced for these paths and counts.
FileRecords == {FileCoverage(p, cp[1], cp[2]) : p \in Paths, cp \in CountPairs}

SeqsUpTo(S, n) == UNION {[1..k -> S] : k \in 0..n}

\* The lines the LCOV artifacts of the model are made of.
LcovSampleLines ==
    { <<"S", "F", ":", "a">>,
      <<"S", "F", ":", "B">>,
      <<"D", "A", ":", "1", ",", "1">>,
      <<"D", "A", ":", "2", ",", "0">>,
      <<"D", "A", ":", "3", ",", "x">>,
      <<"D", "A", ":", "4">>,
      <<" ", "D", "A", ":", "5", ",", "2", ",", "h">>,
      <<"L", "H", ":", "2">>,
      <<"L", "F", ":", "1">>,
      <<"L", "F", ":", "3">>,
      <<"L", "F", ":", "x">>,
      EndOfRecord }

\* The lines the Go cover profiles of the model are made of.
GoSampleLines ==
    { <<"m", "o", "d", "e", ":", " ", "s", "e", "t">>,
      <<"a", ":", "1", " ", "2", " ", "1">>,
      <<"a", ":", "2", " ", "1", " ", "0">>,
      <<"B", ":", "1", " ", "1", " ", "5">>,
      <<"a", ":", "3", " ", "x", " ", "1">>,
      <<"a", ":", "4", " ", "-", "1", " ", "0">>,
      <<"a", " ", "1", " ", "1">>,
      <<"a", ":", "1", " ", "1">> }

\* The artifact texts: up to the bound of sample lines, joined by newlines.
LcovContents == {Join(ls, Newline) : ls \in SeqsUpTo(LcovSampleLines, MaxLcovLines)}
GoContents == {Join(ls, Newline) : ls \in SeqsUpTo(GoSampleLines, MaxGoLines)}

\* ------------------------------------------------------------------- state
VARIABLES
    pc,            \* position of the driver of the checked function(s)
    headFiles,     \* the head records handed to the diff engine
    baseArtifact,  \* the restored base snapshot, nullable
    files,         \* result of computeFileDiffs, nullable until computed
    toolReports,   \* the tool reports built so far
    fullReport,    \* result of buildFullReport, nullable until built
    tool,          \* the tool identifier of the artifact
    content,       \* the artifact text handed to a parser
    results,       \* the records the parser returned, nullable until parsed
    cfg,           \* the inputs and context of the run, nullable outside a run
    markdown,      \* the rendered report, nullable until rendered
    cache,         \* the entries of the snapshot store, oldest first
    restored,      \* result of the last restoreBaseArtifact, nullable
    comments,      \* the comments of the pull request, in creation order
    commentResult, \* result of the last upsertComment, nullable
    inputs,        \* result of parseArtifactInputs, nullable until parsed
    anyDecrease,   \* the decrease flag of the run
    outputs,       \* the outputs set by core.setOutput, each nullable
    failed,        \* whether core.setFailed was called
    log,           \* the effects of the run on its surroundings, in order
    prNumber,      \* result of resolvePrNumber, nullable (undefined)
    calls,         \* the upsertComment calls in flight, by run
    heap           \* the objects of the diff engine, by reference

vars == <<pc, headFiles, baseArtifact, files, toolReports, fullReport,
          tool, content, results,
          cfg, markdown, cache, restored, comments, commentResult,
          inputs, anyDecrease, outputs, failed, log, prNumber, calls, heap>>

diffVars == <<headFiles, baseArtifact, files, toolReports, fullReport>>
parseVars == <<tool, content, results>>
stepVars == <<inputs, anyDecrease, outputs, failed, log, prNumber, calls, heap>>
runVars == <<cfg, markdown, cache, restored, comments, commentResult, stepVars>>

\* No run under way: no inputs parsed, no flag, no output, no failure, no
\* effect, no pull request resolved, no call in flight, no object.
NoOutputs == [overallCoverage |-> Null, coverageDecreased |-> Null, commentId |-> Null]
StepIdle ==
    /\ inputs = Null
    /\ anyDecrease = FALSE
    /\ outputs = NoOutputs
    /\ failed = FALSE
    /\ log = <<>>
    /\ prNumber = Null
    /\ calls = <<>>
    /\ heap = <<>>

\* Outside a run: no configuration, nothing rendered, an empty store and an
\* empty pull request.
RunIdle ==
    /\ StepIdle
    /\ cfg = Null
    /\ markdown = Null
    /\ cache = <<>>
    /\ restored = Null
    /\ comments = <<>>
    /\ commentResult = Null

\* ------------------------------------------------- diff engine on one tool
InitDiff ==
    /\ RunIdle
    /\ pc = "start"
    /\ headFiles \in SeqsUpTo(FileRecords, MaxHead)
    /\ baseArtifact \in {Null} \cup
          {Some(CoverageArtifact("bun", f, "sha0", "main")) :
              f \in SeqsUpTo(FileRecords, MaxBase)}
    /\ files = Null
    /\ toolReports = <<>>
    /\ fullReport = Null
    /\ tool = "bun"
    /\ content = <<>>
    /\ results = Null

\* const files = computeFileDiffs(headFiles, baseFiles)
ComputeFileDiffs ==
    /\ pc = "start"
    /\ files' = Some(computeFileDiffs(headFiles, BaseFilesOf(baseArtifact)))
    /\ pc' = "diffed"
    /\ UNCHANGED <<headFiles, baseArtifact, toolReports, fullReport, parseVars, runVars>>

\* const report = buildToolReport(tool, headFiles, baseArtifact, warnings)
BuildToolReport ==
    /\ pc = "diffed"
    /\ toolReports' = <<buildToolReport(tool, headFiles, baseArtifact, <<>>)>>
    /\ pc' = "reported"
    /\ UNCHANGED <<headFiles, baseArtifact, files, fullReport, parseVars, runVars>>

NextDiff == ComputeFileDiffs \/ BuildToolReport

SpecDiff == InitDiff /\ [][NextDiff]_vars

\* --------------------------------------------- full report over the tools
\* What one tool brings: no record or one record of file "a", and no base, an
\* empty base or a base of one record.
ToolHeads == SeqsUpTo({FileCoverage(<<"a">>, cp[1], cp[2]) : cp \in CountPairs}, 1)
ToolBases ==
    {Null} \cup {Some(CoverageArtifact("bun", f, "sha0", "main")) : f \in ToolHeads}

InitFull ==
    /\ RunIdle
    /\ pc = "tools"
    /\ headFiles = <<>>
    /\ baseArtifact = Null
    /\ files = Null
    /\ toolReports = <<>>
    /\ fullReport = Null
    /\ tool = "bun"
    /\ content = <<>>
    /\ results = Null

\* toolReports.push(buildToolReport(tool, headFiles, baseArtifact, warnings))
AddToolReport ==
    /\ pc = "tools"
    /\ Len(toolReports) < MaxTools
    /\ \E t \in {"bun", "go"}, h \in ToolHeads, b \in ToolBases :
          toolReports' = Append(toolReports, buildToolReport(t, h, b, <<>>))
    /\ UNCHANGED <<pc, headFiles, baseArtifact, files, fullReport, parseVars, runVars>>

\* const fullReport = buildFullReport(toolReports)
BuildFullReport ==
    /\ pc = "tools"
    /\ fullReport' = Some(buildFullReport(toolReports))
    /\ pc' = "built"
    /\ UNCHANGED <<headFiles, baseArtifact, files, toolReports, parseVars, runVars>>

NextFull == AddToolReport \/ BuildFullReport

SpecFull == InitFull /\ [][NextFull]_vars

\* ------------------------------------------------- the parsers on one text
InitParse ==
    /\ RunIdle
    /\ pc = "start"
    /\ tool \in {"lcov", "go"}
    /\ content \in LcovContents \cup GoContents
    /\ results = Null
    /\ headFiles = <<>>
    /\ baseArtifact = Null
    /\ files = Null
    /\ toolReports = <<>>
    /\ fullReport = Null

\* case "bun": case "lcov": parseLcov(content)
ParseLcov ==
    /\ pc = "start"
    /\ tool = "lcov"
    /\ results' = Some(parseLcov(content))
    /\ pc' = "parsed"
    /\ UNCHANGED <<tool, content, diffVars, runVars>>

\* case "go": case "gocover": parseGoCover(content)
ParseGoCover ==
    /\ pc = "start"
    /\ tool = "go"
    /\ results' = Some(parseGoCover(content))
    /\ pc' = "parsed"
    /\ UNCHANGED <<tool, content, diffVars, runVars>>

NextParse == ParseLcov \/ ParseGoCover

SpecParse == InitParse /\ [][NextParse]_vars

\* ------------------------------------------------- the renderer on a report
\* What one tool brings to the renderer: no record or one record of file
\* "a", compared with no base or a base of one record of "a".
RenderHeads ==
    {<<>>, <<FileCoverage(<<"a">>, 1, 3)>>, <<FileCoverage(<<"a">>, 2, 2)>>}
RenderBases ==
    {Null} \cup {Some(CoverageArtifact(BunTool, f, <<"1">>, <<"m">>)) :
                    f \in RenderHeads \ {<<>>}}
RenderToolReports ==
    {buildToolReport(t, h, b, <<>>) :
        t \in {BunTool, GoTool}, h \in RenderHeads, b \in RenderBases}

\* The commit of the run, as index.ts builds commitInfo (247-248).
CommitInfos ==
    {Null, Some([sha |-> <<"a", "b", "c", "1", "2", "3", "4", "5", "6", "7">>, owner |-> <<"o">>, repo |-> <<"r">>])}

Marker == <<"<", "!", "-", "-", " ", "m", " ", "-", "-", ">">>
\* new Date().toISOString() of the model.
Now == <<"T", "0">>

InitRender ==
    /\ StepIdle
    /\ pc = "tools"
    /\ toolReports \in SeqsUpTo(RenderToolReports, MaxTools)
    /\ cfg \in {Some([marker |-> Marker, colorize |-> c, commitInfo |-> ci]) :
                   c \in BOOLEAN, ci \in CommitInfos}
    /\ markdown = Null
    /\ headFiles = <<>>
    /\ baseArtifact = Null
    /\ files = Null
    /\ fullReport = Null
    /\ tool = BunTool
    /\ content = <<>>
    /\ results = Null
    /\ cache = <<>>
    /\ restored = Null
    /\ comments = <<>>
    /\ commentResult = Null

\* const markdown = renderReport(fullReport, marker, colorize, commitInfo):
\* renderReport takes three parameters, the fourth argument is dropped.
RenderReport ==
    /\ pc = "built"
    /\ markdown' = Some(renderReport(CoverageReport(toolReports, Now),
                                     Get(cfg).marker, Get(cfg).colorize))
    /\ pc' = "rendered"
    /\ UNCHANGED <<diffVars, parseVars, cfg, cache, restored, comments, commentResult, stepVars>>

NextRender == BuildFullReport \/ RenderReport

SpecRender == InitRender /\ [][NextRender]_vars

\* ------------------------------------------- the snapshot store over runs
\* The branches, commits and key prefix of the runs.
MainBranch == <<"m", "a", "i", "n">>
FeatBranch == <<"f", "e", "a", "t">>
Branches == {MainBranch, FeatBranch}
Shas == {<<"1">>, <<"2">>}
KeyPrefix == <<"c", "o", "v", "e", "r", "a", "g", "e", "-", "r", "e", "p", "o", "r", "t", "e", "r">>
\* The head records a run saves.
SavedHeads == {<<FileCoverage(<<"a">>, 1, 3)>>, <<FileCoverage(<<"a">>, 2, 2)>>}

InitCache ==
    /\ StepIdle
    /\ pc = "store"
    /\ cache = <<>>
    /\ restored = Null
    /\ cfg = Null
    /\ markdown = Null
    /\ comments = <<>>
    /\ commentResult = Null
    /\ headFiles = <<>>
    /\ baseArtifact = Null
    /\ files = Null
    /\ toolReports = <<>>
    /\ fullReport = Null
    /\ tool = BunTool
    /\ content = <<>>
    /\ results = Null

\* await saveArtifact(input.tool, headFiles, commitSha, currentBranch, cacheKeyPrefix)
SaveArtifact ==
    /\ pc = "store"
    /\ Len(cache) < MaxSaves
    /\ \E up \in BOOLEAN, t \in {BunTool, GoTool}, h \in SavedHeads,
          sha \in Shas, branch \in Branches :
          cache' = saveArtifact(cache, up, t, h, sha, branch, KeyPrefix)
    /\ UNCHANGED <<pc, diffVars, parseVars, cfg, markdown, restored, comments, commentResult, stepVars>>

\* baseArtifact = await restoreBaseArtifact(input.tool, cacheKeyPrefix, baseBranch)
RestoreBaseArtifact ==
    /\ pc = "store"
    /\ \E up \in BOOLEAN, t \in {BunTool, GoTool}, baseBranch \in Branches :
          restored' = Some([tool |-> t, baseBranch |-> baseBranch,
                            artifact |-> restoreBaseArtifact(cache, up, t, KeyPrefix, baseBranch)])
    /\ UNCHANGED <<pc, diffVars, parseVars, cfg, markdown, cache, comments, commentResult, stepVars>>

NextCache == SaveArtifact \/ RestoreBaseArtifact

SpecCache == InitCache /\ [][NextCache]_vars

\* ------------------------------------------- the sticky comment over runs
\* The reports the runs render: no tool, one tool, two tools.
UpsertReports ==
    { <<>>,
      <<buildToolReport(BunTool, <<FileCoverage(<<"a">>, 1, 3)>>,
                        Some(CoverageArtifact(BunTool, <<FileCoverage(<<"a">>, 2, 2)>>,
                                              <<"1">>, <<"m">>)), <<>>)>>,
      <<buildToolReport(BunTool, <<FileCoverage(<<"a">>, 2, 2)>>, Null, <<>>),
        buildToolReport(GoTool, <<>>, Null, <<<<"w">>>>)>> }
\* What the other comments of the pull request say: nothing, or a remark.
OtherBodies == {<<>>, <<"h", "i">>}

InitComment ==
    /\ StepIdle
    /\ pc = "pr"
    /\ cfg = Some([runs |-> 0, others |-> 0])
    /\ comments = <<>>
    /\ commentResult = Null
    /\ markdown = Null
    /\ cache = <<>>
    /\ restored = Null
    /\ headFiles = <<>>
    /\ baseArtifact = Null
    /\ files = Null
    /\ toolReports = <<>>
    /\ fullReport = Null
    /\ tool = BunTool
    /\ content = <<>>
    /\ results = Null

\* Somebody else comments on the pull request.
OtherComment ==
    /\ pc = "pr"
    /\ Get(cfg).others < MaxOtherComments
    /\ \E b \in OtherBodies :
          comments' = Append(comments, [id |-> NewCommentId(comments), body |-> b])
    /\ cfg' = Some([Get(cfg) EXCEPT !.others = @ + 1])
    /\ UNCHANGED <<pc, diffVars, parseVars, markdown, cache, restored, commentResult, stepVars>>

\* One run: renderReport(fullReport, marker, colorize), then
\* upsertComment(token, marker, markdown, prNumber) (249-261).
RunUpsert ==
    /\ pc = "pr"
    /\ Get(cfg).runs < MaxRuns
    /\ \E reports \in UpsertReports, colorize \in BOOLEAN :
          LET body == renderReport(CoverageReport(reports, Now), Marker, colorize)
              done == upsertComment(comments, Marker, body)
          IN  /\ markdown' = Some(body)
              /\ comments' = done.comments
              /\ commentResult' = Some(done.result)
    /\ cfg' = Some([Get(cfg) EXCEPT !.runs = @ + 1])
    /\ UNCHANGED <<pc, diffVars, parseVars, cache, restored, stepVars>>

NextComment == OtherComment \/ RunUpsert

SpecComment == InitComment /\ [][NextComment]_vars

\* ------------------------------------------- resolving the pull request
\* The pull-request-number inputs, the tokens, the event contexts and the
\* answers of the pull request search.
PrOverrides == {<<>>, <<"4", "2">>, <<"a", "b", "c">>, <<"0">>, <<"-", "5">>, <<" ", "7">>, <<"5", "x">>}
Tokens == {<<>>, <<"t">>}
PushEvent == <<"p", "u", "s", "h">>
PullRequestEvents == {<<"p", "u", "l", "l", "_", "r", "e", "q", "u", "e", "s", "t">>, <<"p", "u", "l", "l", "_", "r", "e", "q", "u", "e", "s", "t", "_", "t", "a", "r", "g", "e", "t">>}
WorkflowRunEvent == <<"w", "o", "r", "k", "f", "l", "o", "w", "_", "r", "u", "n">>
PullRequestPayloads == {Null, Some([number |-> Null]), Some([number |-> Some(99)])}
WorkflowRunPayloads ==
    { Null,
      Some([pull_requests |-> Null, head_branch |-> Null]),
      Some([pull_requests |-> Some(<<>>), head_branch |-> Null]),
      Some([pull_requests |-> Some(<<>>), head_branch |-> Some(FeatBranch)]),
      Some([pull_requests |-> Some(<<55, 56>>), head_branch |-> Some(FeatBranch)]) }
Contexts ==
    {[eventName |-> PushEvent, pullRequest |-> Null, workflowRun |-> Null]}
    \cup {[eventName |-> e, pullRequest |-> p, workflowRun |-> Null] :
             e \in PullRequestEvents, p \in PullRequestPayloads}
    \cup {[eventName |-> WorkflowRunEvent, pullRequest |-> Null, workflowRun |-> w] :
             w \in WorkflowRunPayloads}
Listings == {Null, Some(<<>>), Some(<<12>>)}

InitPr ==
    /\ pc = "resolve"
    /\ cfg \in {Some([inputOverride |-> o, token |-> t, context |-> c, listed |-> l]) :
                   o \in PrOverrides, t \in Tokens, c \in Contexts, l \in Listings}
    /\ prNumber = Null
    /\ inputs = Null
    /\ anyDecrease = FALSE
    /\ outputs = NoOutputs
    /\ failed = FALSE
    /\ log = <<>>
    /\ calls = <<>>
    /\ heap = <<>>
    /\ markdown = Null
    /\ cache = <<>>
    /\ restored = Null
    /\ comments = <<>>
    /\ commentResult = Null
    /\ headFiles = <<>>
    /\ baseArtifact = Null
    /\ files = Null
    /\ toolReports = <<>>
    /\ fullReport = Null
    /\ tool = <<>>
    /\ content = <<>>
    /\ results = Null

\* const prNumber = await resolvePrNumber(prNumberInput, token)
ResolvePrNumber ==
    /\ pc = "resolve"
    /\ prNumber' = resolvePrNumber(Get(cfg).inputOverride, Get(cfg).token,
                                   Get(cfg).context, Get(cfg).listed)
    /\ pc' = "resolved"
    /\ UNCHANGED <<diffVars, parseVars, cfg, markdown, cache, restored, comments,
                   commentResult, inputs, anyDecrease, outputs, failed, log, calls, heap>>

NextPr == ResolvePrNumber

SpecPr == InitPr /\ [][NextPr]_vars

\* --------------------------------------------- concurrent upsertComment
\* Runs on the same pull request call upsertComment with the same marker at
\* the same time. Each call first lists the comments (24-37), then updates
\* the comment it found (39-46) or creates one (49-56); between the two
\* requests the other calls can act.
Callers == 1..MaxRuns
CallerBody(r) == Marker \o String(r)

\* octokit.rest.issues.updateComment and createComment on the comments of
\* the pull request.
updateComment(list, id, body) ==
    [i \in DOMAIN list |-> IF list[i].id = id THEN [list[i] EXCEPT !.body = body]
                           ELSE list[i]]
createComment(list, body) == Append(list, [id |-> NewCommentId(list), body |-> body])

InitRace ==
    /\ pc = "race"
    /\ calls = [r \in Callers |-> [at |-> "list", existingCommentId |-> Null]]
    /\ comments \in {<<>>, <<[id |-> 1, body |-> <<"h", "i">>]>>}
    /\ commentResult = Null
    /\ cfg = Null
    /\ markdown = Null
    /\ cache = <<>>
    /\ restored = Null
    /\ inputs = Null
    /\ anyDecrease = FALSE
    /\ outputs = NoOutputs
    /\ failed = FALSE
    /\ log = <<>>
    /\ prNumber = Null
    /\ heap = <<>>
    /\ headFiles = <<>>
    /\ baseArtifact = Null
    /\ files = Null
    /\ toolReports = <<>>
    /\ fullReport = Null
    /\ tool = <<>>
    /\ content = <<>>
    /\ results = Null

\* The listing of one call.
ListComments ==
    /\ pc = "race"
    /\ \E r \in Callers :
          /\ calls[r].at = "list"
          /\ calls' = [calls EXCEPT ![r] =
                          [at |-> "write",
                           existingCommentId |-> FindExisting(Pages(comments), Marker)]]
    /\ UNCHANGED <<pc, diffVars, parseVars, cfg, markdown, cache, restored, comments,
                   commentResult, inputs, anyDecrease, outputs, failed, log, prNumber, heap>>

\* The update or the creation of one call, and its return.
WriteComment ==
    /\ pc = "race"
    /\ \E r \in Callers :
          /\ calls[r].at = "write"
          /\ IF ~IsNull(calls[r].existingCommentId)
             THEN /\ comments' = updateComment(comments, Get(calls[r].existingCommentId),
                                               CallerBody(r))
                  /\ commentResult' = Some([commentId |-> Get(calls[r].existingCommentId),
                                            created |-> FALSE])
             ELSE /\ comments' = createComment(comments, CallerBody(r))
                  /\ commentResult' = Some([commentId |-> NewCommentId(comments),
                                            created |-> TRUE])
          /\ calls' = [calls EXCEPT ![r].at = "returned"]
    /\ UNCHANGED <<pc, diffVars, parseVars, cfg, markdown, cache, restored,
                   inputs, anyDecrease, outputs, failed, log, prNumber, heap>>

NextRace == ListComments \/ WriteComment

SpecRace == InitRace /\ [][NextRace]_vars

\* ------------------------------------------- the diff engine on objects
\* The arrays and records the diff engine works on, as objects of a heap: a
\* reference is a place in the heap, an array holds the references of its
\* elements, a record its field values. A statement that builds an object
\* ([], an object literal, a spread) adds it to the heap; a statement that
\* writes to an object changes it in place.
RecordObject(value) == [kind |-> "record", value |-> value]
ArrayObject(items) == [kind |-> "array", items |-> items]
ArtifactObject(filesRef) == [kind |-> "artifact", files |-> filesRef]
\* The records an array refers to, in order.
ValuesOf(h, ref) == [i \in DOMAIN h[ref].items |-> h[h[ref].items[i]].value]

\* A computeFileDiffs that writes the base fields and the delta into the
\* head records and pushes those.
computeFileDiffsOnInPlace(h, headRef, baseRef) ==
    LET head == ValuesOf(h, headRef)
        base == IF IsNull(baseRef) THEN Null ELSE Some(ValuesOf(h, Get(baseRef)))
        deltas == HeadDeltas(head, base)
        deleted == DeletedDeltas(head, base)
        written == [r \in DOMAIN h |->
                      IF \E i \in DOMAIN head : h[headRef].items[i] = r
                      THEN RecordObject(deltas[CHOOSE i \in DOMAIN head :
                                                   h[headRef].items[i] = r])
                      ELSE h[r]]
        h1 == written \o [i \in DOMAIN deleted |-> RecordObject(deleted[i])]
        refs == h[headRef].items \o [i \in DOMAIN deleted |-> Len(h) + i]
        pushed == deltas \o deleted
        sorted == SortByFile([i \in DOMAIN pushed |->
                                 [file |-> pushed[i].file, ref |-> refs[i]]])
    IN  [heap |-> Append(h1, ArrayObject([i \in DOMAIN sorted |-> sorted[i].ref])),
         result |-> Len(h1) + 1]

\* computeFileDiffs(headFiles, baseFiles) (12-57) on the heap h: each push
\* (27-33, 41-50) adds a new record, result (23) is a new array, and the
\* sort (55) reorders result in place. Gives the heap after the call and the
\* reference returned.
computeFileDiffsOn(h, headRef, baseRef) ==
    LET head == ValuesOf(h, headRef)
        base == IF IsNull(baseRef) THEN Null ELSE Some(ValuesOf(h, Get(baseRef)))
        pushed == HeadDeltas(head, base) \o DeletedDeltas(head, base)
        h1 == h \o [i \in DOMAIN pushed |-> RecordObject(pushed[i])]
        sorted == SortByFile([i \in DOMAIN pushed |->
                                 [file |-> pushed[i].file, ref |-> Len(h) + i]])
    IN  [heap |-> Append(h1, ArrayObject([i \in DOMAIN sorted |-> sorted[i].ref])),
         result |-> Len(h1) + 1]

\* buildToolReport(tool, headFiles, baseArtifact, warnings) (62-103) on the
\* heap: the report is a new object that refers to the result of
\* computeFileDiffs and to the warnings it was given.
buildToolReportOn(h, toolName, headRef, artifactRef, warningsRef) ==
    LET baseRef == IF IsNull(artifactRef) THEN Null ELSE Some(h[Get(artifactRef)].files)
        diffed == computeFileDiffsOn(h, headRef, baseRef)
        base == IF IsNull(baseRef) THEN Null ELSE Some(ValuesOf(h, Get(baseRef)))
        report == [kind |-> "report", tool |-> toolName, files |-> diffed.result,
                   summary |-> ToolSummary(ValuesOf(h, headRef), base),
                   warnings |-> warningsRef]
    IN  [heap |-> Append(diffed.heap, report), result |-> Len(diffed.heap) + 1]

\* buildFullReport(toolReports) (108-127) on the heap: the full report is a
\* new object that refers to the list it was given.
buildFullReportOn(h, toolsRef) ==
    LET reports == [i \in DOMAIN h[toolsRef].items |-> h[h[toolsRef].items[i]]]
        full == [kind |-> "full", tools |-> toolsRef, overall |-> OverallSummary(reports)]
    IN  [heap |-> Append(h, full), result |-> Len(h) + 1]

\* The records of the head and base lists of the calls.
OwnRecords ==
    {FileCoverage(<<"a">>, 1, 3), FileCoverage(<<"a">>, 2, 2), FileCoverage(<<"B">>, 2, 2)}

\* The heap of the caller before the calls: the head records and their
\* array, the warnings array, and for a non-null base its records, their
\* array and the artifact.
CallerHeap(head, base) ==
    LET records == [i \in DOMAIN head |-> RecordObject(head[i])]
        h1 == records \o <<ArrayObject([i \in DOMAIN head |-> i]), ArrayObject(<<>>)>>
    IN  IF IsNull(base) THEN h1
        ELSE h1 \o [i \in DOMAIN Get(base) |-> RecordObject(Get(base)[i])]
                \o <<ArrayObject([i \in DOMAIN Get(base) |-> Len(h1) + i]),
                     ArtifactObject(Len(h1) + Len(Get(base)) + 1)>>

InitOwn ==
    /\ pc = "own"
    /\ \E head \in SeqsUpTo(OwnRecords, MaxHead),
          base \in {Null} \cup {Some(b) : b \in SeqsUpTo(OwnRecords, MaxBase)} :
          /\ heap = CallerHeap(head, base)
          /\ cfg = Some([headRef |-> Len(head) + 1,
                         warningsRef |-> Len(head) + 2,
                         artifactRef |-> IF IsNull(base) THEN Null
                                         ELSE Some(Len(CallerHeap(head, base))),
                         size |-> Len(CallerHeap(head, base))])
    /\ files = Null
    /\ toolReports = <<>>
    /\ fullReport = Null
    /\ headFiles = <<>>
    /\ baseArtifact = Null
    /\ tool = BunTool
    /\ content = <<>>
    /\ results = Null
    /\ markdown = Null
    /\ cache = <<>>
    /\ restored = Null
    /\ comments = <<>>
    /\ commentResult = Null
    /\ inputs = Null
    /\ anyDecrease = FALSE
    /\ outputs = NoOutputs
    /\ failed = FALSE
    /\ log = <<>>
    /\ prNumber = Null
    /\ calls = <<>>

\* const files = computeFileDiffs(headFiles, baseFiles)
OwnComputeFileDiffs ==
    /\ pc = "own"
    /\ LET c == Get(cfg)
           baseRef == IF IsNull(c.artifactRef) THEN Null
                      ELSE Some(heap[Get(c.artifactRef)].files)
           call == computeFileDiffsOn(heap, c.headRef, baseRef)
       IN  /\ heap' = call.heap
           /\ files' = Some(call.result)
    /\ pc' = "diffed"
    /\ UNCHANGED <<headFiles, baseArtifact, toolReports, fullReport, parseVars, cfg,
                   markdown, cache, restored, comments, commentResult, inputs,
                   anyDecrease, outputs, failed, log, prNumber, calls>>

\* const report = buildToolReport(tool, headFiles, baseArtifact, warnings)
OwnBuildToolReport ==
    /\ pc = "diffed"
    /\ LET c == Get(cfg)
           call == buildToolReportOn(heap, tool, c.headRef, c.artifactRef, c.warningsRef)
       IN  /\ heap' = call.heap
           /\ toolReports' = <<call.result>>
    /\ pc' = "reported"
    /\ UNCHANGED <<headFiles, baseArtifact, files, fullReport, parseVars, cfg,
                   markdown, cache, restored, comments, commentResult, inputs,
                   anyDecrease, outputs, failed, log, prNumber, calls>>

\* const full = buildFullReport([report]): the list is built by the caller,
\* then the function is called with it.
OwnBuildFullReport ==
    /\ pc = "reported"
    /\ LET listed == Append(heap, ArrayObject(toolReports))
           call == buildFullReportOn(listed, Len(listed))
       IN  /\ heap' = call.heap
           /\ fullReport' = Some(call.result)
    /\ pc' = "full"
    /\ UNCHANGED <<headFiles, baseArtifact, files, toolReports, parseVars, cfg,
                   markdown, cache, restored, comments, commentResult, inputs,
                   anyDecrease, outputs, failed, log, prNumber, calls>>

NextOwn == OwnComputeFileDiffs \/ OwnBuildToolReport \/ OwnBuildFullReport

SpecOwn == InitOwn /\ [][NextOwn]_vars

\* --------------------------------------------------------------- one run
\* The artifact files of a run: missing, unreadable, blank, an LCOV report
\* of one file (1 line of 2 covered) and a Go profile of one file (2
\* statements of 3 covered).
MissingFile == [exists |-> FALSE, readable |-> FALSE, message |-> <<>>, content |-> <<>>]
UnreadableFile ==
    [exists |-> TRUE, readable |-> FALSE, message |-> <<"E", "A", "C", "C", "E", "S">>, content |-> <<>>]
BlankFile == [exists |-> TRUE, readable |-> TRUE, message |-> <<>>, content |-> <<" ", "\n">>]
LcovFile ==
    [exists |-> TRUE, readable |-> TRUE, message |-> <<>>,
     content |-> Join(<<<<"S", "F", ":", "a">>, <<"D", "A", ":", "1", ",", "1">>, <<"D", "A", ":", "2", ",", "0">>, EndOfRecord, <<>>>>, Newline)]
GoFile ==
    [exists |-> TRUE, readable |-> TRUE, message |-> <<>>,
     content |-> Join(<<<<"m", "o", "d", "e", ":", " ", "s", "e", "t">>, <<"B", ":", "1", " ", "2", " ", "1">>, <<"B", ":", "2", " ", "1", " ", "0">>, <<>>>>, Newline)]

\* existsSync / readFileSync of the paths of the run; any other path names
\* no file.
FileAt(path) ==
    IF path = <<"u">> THEN UnreadableFile
    ELSE IF path = <<"e">> THEN BlankFile
    ELSE IF path = <<"l">> THEN LcovFile
    ELSE IF path = <<"g">> THEN GoFile
    ELSE MissingFile

\* The entries of the coverage-artifact-paths input: seven of the form
\* tool:path, one of them with blanks and capitals, and one without colon.
ArtifactEntries ==
    { <<"b", "u", "n", ":", "m">>, <<"b", "u", "n", ":", "u">>, <<"b", "u", "n", ":", "e">>, <<"b", "u", "n", ":", "l">>, <<"g", "o", ":", "e">>, <<" ", "G", "o", " ", ":", " ", "g">>, <<"z", "i", "g", ":", "l">>, <<"b", "u", "n">> }

\* The coverage-artifact-paths inputs: entries separated by a comma and a
\* newline.
RawInputs == {Join(es, <<",", "\n">>) : es \in SeqsUpTo(ArtifactEntries, MaxTools)}

\* The snapshot store before the run: empty, or with what earlier runs on
\* the base branch saved for bun, or for bun and go, or for bun from a
\* report whose LH exceeds its LF, or with a bun snapshot that cannot be
\* read back.
BunBaseSaved ==
    saveArtifact(<<>>, TRUE, BunTool,
                 <<FileCoverage(<<"a">>, 2, 2), FileCoverage(<<"c">>, 1, 3)>>,
                 <<"0">>, MainBranch, KeyPrefix)
BaseCaches ==
    { <<>>, BunBaseSaved,
      saveArtifact(BunBaseSaved, TRUE, GoTool, <<FileCoverage(<<"B">>, 1, 3)>>,
                   <<"0">>, MainBranch, KeyPrefix),
      saveArtifact(<<>>, TRUE, BunTool, <<FileCoverage(<<"a">>, 2, 1)>>,
                   <<"0">>, MainBranch, KeyPrefix),
      <<[path |-> artifactPath(BunTool),
         key |-> Join(<<KeyPrefix, BunTool, MainBranch, <<"0">>>>, <<"-">>),
         data |-> Unparsable]>> }

\* fail-on-decrease and coverage-threshold (in hundredths of a percent).
Policies ==
    { [failOnDecrease |-> FALSE, threshold |-> 0],
      [failOnDecrease |-> FALSE, threshold |-> 60 * Scale],
      [failOnDecrease |-> TRUE, threshold |-> 0],
      [failOnDecrease |-> TRUE, threshold |-> 100 * Scale] }

\* pull-request-number and github-token of a run on a push event.
PullRequestInputs ==
    { [prNumberInput |-> <<"4", "2">>, token |-> <<"t">>],
      [prNumberInput |-> <<>>, token |-> <<"t">>],
      [prNumberInput |-> <<"4", "2">>, token |-> <<>>] }

RunConfigs ==
    { [raw |-> raw, baseBranch |-> MainBranch, currentBranch |-> FeatBranch,
       commitSha |-> <<"1">>, cacheKeyPrefix |-> KeyPrefix, marker |-> Marker,
       colorize |-> col, cacheUp |-> up,
       failOnDecrease |-> pol.failOnDecrease, threshold |-> pol.threshold,
       prNumberInput |-> pr.prNumberInput, token |-> pr.token,
       context |-> [eventName |-> PushEvent, pullRequest |-> Null, workflowRun |-> Null],
       listed |-> Null] :
        raw \in RawInputs, col \in BOOLEAN, up \in BOOLEAN,
        pol \in Policies, pr \in PullRequestInputs }

\* An effect of the run: what was done, for which entry of the inputs (0
\* for none), and the cache key or the output name it was done with.
Event(op, entry, key) == [op |-> op, entry |-> entry, key |-> key]

\* The key a snapshot is stored under (77).
KeyOf(artifact, cacheKeyPrefix) ==
    Join(<<cacheKeyPrefix, artifact.tool, artifact.branch, artifact.commitSha>>, <<"-">>)

\* a < b of two numbers, false when one of them is NaN.
Less(a, b) == ~IsNaN(a) /\ ~IsNaN(b) /\ a < b

\* A decrease flag raised by a negative delta of a file.
DecreasedByFile(report) ==
    \E i \in DOMAIN report.files :
        ~IsNull(report.files[i].delta) /\ Less(Get(report.files[i].delta), 0)

\* report.summary.delta !== null && report.summary.delta < 0 (223)
Decreased(report) ==
    ~IsNull(report.summary.delta) /\ Less(Get(report.summary.delta), 0)

\* A threshold check that also fails a run that is at the threshold.
BelowOrAtThreshold(threshold, percent) ==
    Less(0, threshold) /\ (Less(percent, threshold) \/ percent = threshold)

\* threshold > 0 && fullReport.overall.percent < threshold (287)
BelowThreshold(threshold, percent) == Less(0, threshold) /\ Less(percent, threshold)

InitRun ==
    /\ pc = "start"
    /\ cfg \in {Some(c) : c \in RunConfigs}
    /\ cache \in BaseCaches
    /\ toolReports = <<>>
    /\ headFiles = <<>>
    /\ baseArtifact = Null
    /\ files = Null
    /\ fullReport = Null
    /\ tool = <<>>
    /\ content = <<>>
    /\ results = Null
    /\ markdown = Null
    /\ restored = Null
    /\ comments = <<>>
    /\ commentResult = Null
    /\ StepIdle

\* const inputs = parseArtifactInputs(artifactPathsRaw) (195-199); when it
\* throws, the catch of run() (303-305) fails the run.
ParseArtifactInputs ==
    /\ pc = "start"
    /\ LET parsed == parseArtifactInputs(Get(cfg).raw)
       IN  /\ inputs' = parsed
           /\ failed' = IsNull(parsed)
           /\ pc' = IF IsNull(parsed) THEN "done" ELSE "loop"
           /\ log' = IF IsNull(parsed) THEN <<Event("setFailed", 0, <<>>)>>
                     ELSE IF Get(parsed) = <<>> THEN <<Event("warning", 0, <<>>)>>
                     ELSE <<>>
    /\ UNCHANGED <<diffVars, parseVars, cfg, markdown, cache, restored, comments,
                   commentResult, anyDecrease, outputs, prNumber, calls, heap>>

\* One turn of the loop over the inputs (205-241): parse the head, restore
\* the base, build and push the tool report, raise the decrease flag, save
\* the head when it has records.
ProcessInput ==
    /\ pc = "loop"
    /\ Len(toolReports) < Len(Get(inputs))
    /\ LET c == Get(cfg)
           k == Len(toolReports) + 1
           input == Get(inputs)[k]
           file == FileAt(input.path)
           parsed == parseFile(input.tool, input.path, file)
           base == restoreBaseArtifact(cache, c.cacheUp, input.tool,
                                       c.cacheKeyPrefix, c.baseBranch)
           report == buildToolReport(input.tool, parsed.files, base, parsed.warnings)
           saved == CoverageArtifact(input.tool, parsed.files, c.commitSha, c.currentBranch)
       IN  /\ tool' = input.tool
           /\ content' = file.content
           /\ results' = Some(parsed.files)
           /\ headFiles' = parsed.files
           /\ baseArtifact' = base
           /\ restored' = Some([tool |-> input.tool, baseBranch |-> c.baseBranch,
                                artifact |-> base])
           /\ files' = Some(report.files)
           /\ toolReports' = Append(toolReports, report)
           /\ anyDecrease' = (anyDecrease \/ Decreased(report))
           /\ cache' = IF Len(parsed.files) > 0
                       THEN saveArtifact(cache, c.cacheUp, input.tool, parsed.files,
                                         c.commitSha, c.currentBranch, c.cacheKeyPrefix)
                       ELSE cache
           /\ log' = log
                \o <<Event("parse", k, input.path),
                     Event("restore", k,
                           IF IsNull(base) THEN <<>> ELSE KeyOf(Get(base), c.cacheKeyPrefix))>>
                \o (IF Len(parsed.files) > 0
                    THEN <<Event("save", k, KeyOf(saved, c.cacheKeyPrefix))>>
                    ELSE <<>>)
    /\ UNCHANGED <<pc, cfg, fullReport, markdown, comments, commentResult,
                   inputs, outputs, failed, prNumber, calls, heap>>

\* After the loop (244-300): build the full report, render it, set the two
\* outputs, resolve the pull request, upsert the comment or write the report
\* to the log, then check the threshold and the decrease flag. throws is
\* whether upsertComment throws.
FinishRun ==
    /\ pc = "loop"
    /\ Len(toolReports) = Len(Get(inputs))
    /\ \E throws \in BOOLEAN :
        LET c == Get(cfg)
            full == buildFullReport(toolReports)
            body == renderReport(CoverageReport(toolReports, Now), c.marker, c.colorize)
            pr == resolvePrNumber(c.prNumberInput, c.token, c.context, c.listed)
            can == ~IsNull(pr) /\ c.token # <<>>
            done == upsertComment(comments, c.marker, body)
            posted == can /\ ~throws
            fails == \/ BelowThreshold(c.threshold, full.overall.percent)
                     \/ (c.failOnDecrease /\ anyDecrease)
        IN  /\ (throws => can)
            /\ fullReport' = Some(full)
            /\ markdown' = Some(body)
            /\ prNumber' = pr
            /\ outputs' =
                 [overallCoverage |-> Some(ToFixed2(full.overall.percent)),
                  coverageDecreased |-> Some(IF anyDecrease THEN <<"t", "r", "u", "e">> ELSE <<"f", "a", "l", "s", "e">>),
                  commentId |-> IF posted THEN Some(String(done.result.commentId))
                                ELSE Null]
            /\ comments' = IF posted THEN done.comments ELSE comments
            /\ commentResult' = IF posted THEN Some(done.result) ELSE Null
            /\ failed' = fails
            /\ log' = log
                 \o <<Event("setOutput", 0, <<"o", "v", "e", "r", "a", "l", "l", "-", "c", "o", "v", "e", "r", "a", "g", "e">>),
                      Event("setOutput", 0, <<"c", "o", "v", "e", "r", "a", "g", "e", "-", "d", "e", "c", "r", "e", "a", "s", "e", "d">>)>>
                 \o (IF posted
                     THEN <<Event("upsert", 0, <<>>), Event("setOutput", 0, <<"c", "o", "m", "m", "e", "n", "t", "-", "i", "d">>)>>
                     ELSE IF can
                     THEN <<Event("upsert", 0, <<>>), Event("warning", 0, <<>>),
                            Event("report", 0, <<>>)>>
                     ELSE IF IsNull(pr)
                     THEN <<Event("warning", 0, <<>>), Event("report", 0, <<>>)>>
                     ELSE <<Event("report", 0, <<>>)>>)
                 \o (IF fails THEN <<Event("setFailed", 0, <<>>)>> ELSE <<>>)
    /\ pc' = "done"
    /\ UNCHANGED <<headFiles, baseArtifact, files, toolReports, parseVars, cfg,
                   cache, restored, inputs, anyDecrease, calls, heap>>

NextRun == ParseArtifactInputs \/ ProcessInput \/ FinishRun

SpecRun == InitRun /\ [][NextRun]_vars

\* ------------------------------------------------------------- properties
\* The arguments and the result of the computeFileDiffs call of SpecDiff.
DiffDone == ~IsNull(files)
DiffResult == Get(files)
BaseGiven == ~IsNull(baseArtifact)
BaseList == Get(baseArtifact).files

\* The head record's own fields of a delta record.
OwnFields(d) ==
    [file |-> d.file, coveredLines |-> d.coveredLines,
     totalLines |-> d.totalLines, percent |-> d.percent]

\* A delta record with the own fields of h and the base fields of b.
ComparedRecord(h, b) ==
    [file |-> h.file, coveredLines |-> h.coveredLines,
     totalLines |-> h.totalLines, percent |-> h.percent,
     baseCoveredLines |-> Some(b.coveredLines),
     baseTotalLines |-> Some(b.totalLines),
     basePercent |-> Some(b.percent),
     delta |-> Some(h.percent - b.percent)]

\* A delta record with the own fields of h and no base.
UncomparedRecord(h) ==
    [file |-> h.file, coveredLines |-> h.coveredLines,
     totalLines |-> h.totalLines, percent |-> h.percent,
     baseCoveredLines |-> Null, baseTotalLines |-> Null,
     basePercent |-> Null, delta |-> Null]

InHead(path) == \E j \in DOMAIN headFiles : headFiles[j].file = path
InResult(d) == \E k \in DOMAIN DiffResult : DiffResult[k] = d

\* C1. Deletion law: with a non-null base, every base record whose path is
\* the path of no head record has a record in the result with coveredLines,
\* totalLines and percent 0, the base fields of that base record and
\* delta = -basePercent.
C1_DeletionLaw ==
    (DiffDone /\ BaseGiven) =>
        \A i \in DOMAIN BaseList :
            ~InHead(BaseList[i].file) =>
                InResult([file |-> BaseList[i].file,
                          coveredLines |-> 0, totalLines |-> 0, percent |-> 0,
                          baseCoveredLines |-> Some(BaseList[i].coveredLines),
                          baseTotalLines |-> Some(BaseList[i].totalLines),
                          basePercent |-> Some(BaseList[i].percent),
                          delta |-> Some(-BaseList[i].percent)])

\* C1 witness: a file with a positive base percent was deleted while another
\* file is still in head.
C1_Witness ==
    /\ DiffDone /\ BaseGiven
    /\ headFiles # <<>>
    /\ \E i \in DOMAIN BaseList :
          /\ ~InHead(BaseList[i].file)
          /\ BaseList[i].percent > 0
          /\ \E k \in DOMAIN DiffResult :
                /\ DiffResult[k].file = BaseList[i].file
                /\ DiffResult[k].delta = Some(-BaseList[i].percent)

\* C2. With no base (null), the result has exactly one record per head
\* record, each with the head record's own fields, delta = null and all base
\* fields null; there is no record of a deleted file.
C2_NullBase ==
    (DiffDone /\ ~BaseGiven) =>
        /\ Len(DiffResult) = Len(headFiles)
        /\ \A k \in DOMAIN DiffResult :
              DiffResult[k] = UncomparedRecord(OwnFields(DiffResult[k]))
        /\ \A i \in DOMAIN headFiles :
              Cardinality({j \in DOMAIN headFiles : headFiles[j] = headFiles[i]})
                = Cardinality({k \in DOMAIN DiffResult :
                                  OwnFields(DiffResult[k]) = headFiles[i]})

\* C2 witness: two head records were compared against a null base.
C2_Witness ==
    /\ DiffDone /\ ~BaseGiven
    /\ Len(headFiles) = 2
    /\ Len(DiffResult) = 2
    /\ DiffResult[1].delta = Null

\* The positions of the base records with a path.
BaseAt(path) == {j \in DOMAIN BaseList : BaseList[j].file = path}
LastOf(S) == CHOOSE j \in S : \A m \in S : m <= j

\* C3 as stated: a head record whose path is the path of a base record gets
\* the fields of that base record and delta = round2(head.percent -
\* base.percent), for each base record of that path; a head record with no
\* base record of its path gets null base fields and delta = null.
C3_AsStated ==
    DiffDone =>
        \A i \in DOMAIN headFiles :
            IF BaseGiven /\ BaseAt(headFiles[i].file) # {}
            THEN \A j \in BaseAt(headFiles[i].file) :
                    InResult(ComparedRecord(headFiles[i], BaseList[j]))
            ELSE InResult(UncomparedRecord(headFiles[i]))

\* C3 amended: the base record a head record is compared against is the last
\* base record of its path.
C3_LastBaseRecordWins ==
    DiffDone =>
        \A i \in DOMAIN headFiles :
            IF BaseGiven /\ BaseAt(headFiles[i].file) # {}
            THEN InResult(ComparedRecord(headFiles[i],
                             BaseList[LastOf(BaseAt(headFiles[i].file))]))
            ELSE InResult(UncomparedRecord(headFiles[i]))

\* C3 witness: a head record was compared against a base that holds two
\* different records of its path, and another head record has no base record
\* although the base is not null.
C3_Witness ==
    /\ DiffDone /\ BaseGiven
    /\ \E i \in DOMAIN headFiles :
          /\ Cardinality(BaseAt(headFiles[i].file)) = 2
          /\ BaseList[1].percent # BaseList[2].percent
          /\ \E k \in DOMAIN DiffResult :
                /\ DiffResult[k].file = headFiles[i].file
                /\ DiffResult[k].delta # Null
                /\ Get(DiffResult[k].delta) # 0
    /\ \E i \in DOMAIN headFiles :
          /\ BaseAt(headFiles[i].file) = {}
          /\ InResult(UncomparedRecord(headFiles[i]))

\* UTF-16 code unit of a letter: "A" is 65, "a" is 97.
CodeUnit(c) == IF IsUpper(c) THEN 64 + LetterIndex(c) ELSE 96 + LetterIndex(c)
\* Lexicographic order of two strings, character by character by code unit,
\* as a < b compares strings in JavaScript.
LexLess(a, b) ==
    SeqCompare([i \in DOMAIN a |-> CodeUnit(a[i])],
               [i \in DOMAIN b |-> CodeUnit(b[i])]) < 0

\* C4 as stated: the result is in ascending lexicographic order of path.
C4_AsStated ==
    DiffDone =>
        \A k \in DOMAIN DiffResult : \A l \in DOMAIN DiffResult :
            k < l => ~LexLess(DiffResult[l].file, DiffResult[k].file)

\* C4 amended: the result is in ascending order of path under localeCompare,
\* whatever the order of the inputs, the records of deleted files included.
C4_SortedByLocaleCompare ==
    DiffDone =>
        \A k \in DOMAIN DiffResult : \A l \in DOMAIN DiffResult :
            k < l => localeCompare(DiffResult[k].file, DiffResult[l].file) <= 0

\* C4 witness: head was given out of order and the record of a deleted file
\* stands before a record of a head file.
C4_Witness ==
    /\ DiffDone /\ BaseGiven
    /\ Len(headFiles) = 2
    /\ localeCompare(headFiles[1].file, headFiles[2].file) > 0
    /\ Len(DiffResult) = 3
    /\ InHead(DiffResult[1].file)
    /\ ~InHead(DiffResult[2].file)
    /\ InHead(DiffResult[3].file)

\* The tool report of SpecDiff.
ReportDone == pc = "reported"
Summary == toolReports[1].summary

\* The sum of a field over a list, by position.
CoveredSum(list) ==
    LET sum[k \in 0..Len(list)] ==
            IF k = 0 THEN 0 ELSE sum[k - 1] + list[k].coveredLines
    IN  sum[Len(list)]
TotalSum(list) ==
    LET sum[k \in 0..Len(list)] ==
            IF k = 0 THEN 0 ELSE sum[k - 1] + list[k].totalLines
    IN  sum[Len(list)]
PercentSum(list) ==
    LET sum[k \in 0..Len(list)] ==
            IF k = 0 THEN 0 ELSE sum[k - 1] + list[k].percent
    IN  sum[Len(list)]

\* p is the percentage c / t * 100 rounded to two decimals (p in hundredths):
\* |p - 10000 c / t| <= 1/2, the half rounding up.
IsRoundedRatio(p, c, t) ==
    /\ 2 * p * t <= 20000 * c + t
    /\ 2 * p * t > 20000 * c - t

\* p is the percent of the raw counts c of t: the rounded ratio, or 100 when
\* there is nothing to cover.
IsPercentOfCounts(p, c, t) ==
    IF t > 0 THEN IsRoundedRatio(p, c, t) ELSE p = 10000

\* C5. Aggregation law: the summary's coveredLines and totalLines are the sums
\* of the raw counts of the head records, and its percent is the rounded ratio
\* of those sums (100 when the total is 0), not the mean of the percentages.
C5_AggregationLaw ==
    ReportDone =>
        /\ Summary.coveredLines = CoveredSum(headFiles)
        /\ Summary.totalLines = TotalSum(headFiles)
        /\ IsPercentOfCounts(Summary.percent, CoveredSum(headFiles), TotalSum(headFiles))

\* C5 witness: the mean of the per-file percentages differs from the summary
\* percent, and the report holds the record of a deleted file.
C5_Witness ==
    /\ ReportDone /\ BaseGiven
    /\ Len(headFiles) = 2
    /\ TotalSum(headFiles) > 0
    /\ 2 * Summary.percent # PercentSum(headFiles)
    /\ Len(toolReports[1].files) > Len(headFiles)

\* C6. With a base artifact whose file list is not empty, the summary's base
\* counts are the sums over the base files, basePercent is the rounded ratio
\* of those sums (100 when the base total is 0) and delta = percent -
\* basePercent; with no base artifact or an empty file list all four are null.
C6_BaseSummary ==
    ReportDone =>
        IF BaseGiven /\ Len(BaseList) > 0
        THEN /\ Summary.baseCoveredLines = Some(CoveredSum(BaseList))
             /\ Summary.baseTotalLines = Some(TotalSum(BaseList))
             /\ ~IsNull(Summary.basePercent)
             /\ IsPercentOfCounts(Get(Summary.basePercent),
                                  CoveredSum(BaseList), TotalSum(BaseList))
             /\ Summary.delta = Some(Summary.percent - Get(Summary.basePercent))
        ELSE /\ Summary.baseCoveredLines = Null
             /\ Summary.baseTotalLines = Null
             /\ Summary.basePercent = Null
             /\ Summary.delta = Null

\* C6 witness: a report over an empty (not null) base list, with head records.
C6_Witness ==
    /\ ReportDone /\ BaseGiven
    /\ BaseList = <<>>
    /\ headFiles # <<>>
    /\ Summary.delta = Null

\* The sums over the tool summaries of SpecFull.
FullDone == ~IsNull(fullReport)
Overall == Get(fullReport).overall
ToolsCovered ==
    LET sum[k \in 0..Len(toolReports)] ==
            IF k = 0 THEN 0 ELSE sum[k - 1] + toolReports[k].summary.coveredLines
    IN  sum[Len(toolReports)]
ToolsTotal ==
    LET sum[k \in 0..Len(toolReports)] ==
            IF k = 0 THEN 0 ELSE sum[k - 1] + toolReports[k].summary.totalLines
    IN  sum[Len(toolReports)]
ToolsBaseCovered ==
    LET sum[k \in 0..Len(toolReports)] ==
            IF k = 0 THEN 0
            ELSE sum[k - 1] + (IF toolReports[k].summary.baseCoveredLines = Null
                               THEN 0
                               ELSE Get(toolReports[k].summary.baseCoveredLines))
    IN  sum[Len(toolReports)]
ToolsBaseTotal ==
    LET sum[k \in 0..Len(toolReports)] ==
            IF k = 0 THEN 0
            ELSE sum[k - 1] + (IF toolReports[k].summary.baseTotalLines = Null
                               THEN 0
                               ELSE Get(toolReports[k].summary.baseTotalLines))
    IN  sum[Len(toolReports)]

\* C7. The overall coveredLines and totalLines are the sums of the tool
\* summaries' counts and the overall percent is their rounded ratio (100 when
\* the total is 0); overall basePercent and delta are non-null exactly when
\* the sum of the tools' baseTotalLines (null as 0) is > 0, and are then the
\* rounded ratio of the summed base counts and percent - basePercent; the
\* tools are kept in input order.
C7_FullReport ==
    FullDone =>
        /\ Overall.coveredLines = ToolsCovered
        /\ Overall.totalLines = ToolsTotal
        /\ IsPercentOfCounts(Overall.percent, ToolsCovered, ToolsTotal)
        /\ IF ToolsBaseTotal > 0
           THEN /\ ~IsNull(Overall.basePercent)
                /\ IsRoundedRatio(Get(Overall.basePercent),
                                  ToolsBaseCovered, ToolsBaseTotal)
                /\ Overall.delta = Some(Overall.percent - Get(Overall.basePercent))
           ELSE Overall.basePercent = Null /\ Overall.delta = Null
        /\ Get(fullReport).tools = toolReports

\* C7 witness: two tools, one with a base without coverable lines (its own
\* basePercent is 100) and one without base: the overall base is null.
C7_Witness ==
    /\ FullDone
    /\ Len(toolReports) = 2
    /\ toolReports[1].tool # toolReports[2].tool
    /\ toolReports[1].summary.basePercent = Some(10000)
    /\ toolReports[1].summary.baseTotalLines = Some(0)
    /\ toolReports[2].summary.basePercent = Null
    /\ Overall.totalLines > 0
    /\ Overall.basePercent = Null

\* The parser call of SpecParse.
ParseDone == ~IsNull(results)
Records == Get(results)

\* C8 as stated: every record of either parser has percent in [0, 100], and
\* percent = 100 exactly when totalLines = 0.
C8_AsStated ==
    ParseDone =>
        \A k \in DOMAIN Records :
            /\ Records[k].percent >= 0
            /\ Records[k].percent <= 10000
            /\ (Records[k].percent = 10000) <=> (Records[k].totalLines = 0)

\* C8 amended: every record with totalLines = 0 has percent = 100, and every
\* record with 0 <= coveredLines <= totalLines has percent in [0, 100].
C8_PercentRange ==
    ParseDone =>
        \A k \in DOMAIN Records :
            /\ Records[k].totalLines = 0 => Records[k].percent = 10000
            /\ (0 <= Records[k].coveredLines
                  /\ Records[k].coveredLines <= Records[k].totalLines)
                   => (Records[k].percent >= 0 /\ Records[k].percent <= 10000)

\* C8 witness: one parse returned a fully covered file (percent 100 with
\* totalLines > 0) and a file with nothing to cover.
C8_Witness ==
    /\ ParseDone
    /\ \E k \in DOMAIN Records :
          Records[k].totalLines > 0 /\ Records[k].percent = 10000
    /\ \E k \in DOMAIN Records :
          Records[k].totalLines = 0 /\ Records[k].percent = 10000

\* What an LCOV text says, block by block.
BlockLines(block) ==
    LET split == Split(Trim(block), Newline)
    IN  [i \in DOMAIN split |-> Trim(split[i])]
LinesWith(lines, prefix) == {i \in DOMAIN lines : StartsWith(lines[i], prefix)}
FieldsOf(line) == Split(SliceFrom(line, 3), <<",">>)
\* The DA lines with at least two fields, and those of them with a count > 0.
CountedDA(lines) ==
    {i \in LinesWith(lines, <<"D", "A", ":">>) : Len(FieldsOf(lines[i])) >= 2}
HitDA(lines) ==
    {i \in CountedDA(lines) :
        /\ ParseInt(FieldsOf(lines[i])[2]) # NaN
        /\ ParseInt(FieldsOf(lines[i])[2]) > 0}
\* The value of the last line with a prefix.
LastValue(lines, prefix) ==
    ParseInt(SliceFrom(lines[LastOf(LinesWith(lines, prefix))], 3))
\* The path of the block: that of its last SF line, empty without one.
BlockFile(lines) ==
    IF LinesWith(lines, <<"S", "F", ":">>) = {} THEN <<>>
    ELSE Trim(SliceFrom(lines[LastOf(LinesWith(lines, <<"S", "F", ":">>))], 3))
HasFile(block) == BlockFile(BlockLines(block)) # <<>>
\* The blocks that name a file, in input order.
FileBlocks == SelectSeq(Split(content, EndOfRecord), HasFile)

\* Every count field of the text parses to a number.
CountsAreNumeric ==
    \A n \in DOMAIN Split(content, EndOfRecord) :
        LET lines == BlockLines(Split(content, EndOfRecord)[n])
        IN  /\ \A i \in CountedDA(lines) : ParseInt(FieldsOf(lines[i])[2]) # NaN
            /\ \A i \in LinesWith(lines, <<"L", "H", ":">>) :
                  ParseInt(SliceFrom(lines[i], 3)) # NaN
            /\ \A i \in LinesWith(lines, <<"L", "F", ":">>) :
                  ParseInt(SliceFrom(lines[i], 3)) # NaN

LcovParsed == ParseDone /\ tool = "lcov"

\* C9 as stated: when every count field parses to a number, every record of
\* parseLcov has coveredLines <= totalLines, those of the LH/LF fallback
\* included.
C9_AsStated ==
    (LcovParsed /\ CountsAreNumeric) =>
        \A k \in DOMAIN Records : Records[k].coveredLines <= Records[k].totalLines

\* C9 amended: when every count field parses to a number, a record whose
\* block has a DA line with two fields or more has coveredLines <= totalLines;
\* a record of the LH/LF fallback has it exactly when LH (0 without an LH
\* line) <= LF.
C9_CoveredAtMostTotal ==
    (LcovParsed /\ CountsAreNumeric) =>
        /\ Len(Records) = Len(FileBlocks)
        /\ \A k \in DOMAIN Records :
              LET lines == BlockLines(FileBlocks[k])
                  lh == IF LinesWith(lines, <<"L", "H", ":">>) = {} THEN 0
                        ELSE LastValue(lines, <<"L", "H", ":">>)
              IN  IF CountedDA(lines) # {} \/ LinesWith(lines, <<"L", "F", ":">>) = {}
                  THEN Records[k].coveredLines <= Records[k].totalLines
                  ELSE (Records[k].coveredLines <= Records[k].totalLines)
                          <=> (lh <= LastValue(lines, <<"L", "F", ":">>))

\* C9 witness: a parse returned a record of the LH/LF fallback with
\* 0 < LH <= LF.
C9_Witness ==
    /\ LcovParsed /\ CountsAreNumeric
    /\ \E k \in DOMAIN Records :
          /\ CountedDA(BlockLines(FileBlocks[k])) = {}
          /\ LinesWith(BlockLines(FileBlocks[k]), <<"L", "F", ":">>) # {}
          /\ Records[k].coveredLines > 0
          /\ Records[k].coveredLines <= Records[k].totalLines

\* C10. In a block, every DA line with two fields or more adds 1 to
\* totalLines, and 1 to coveredLines only if its count parses to a number
\* > 0 (a malformed count adds to totalLines alone); a DA line with a single
\* field adds to neither; parseLcov returns for every text.
C10_DACounting ==
    /\ tool = "lcov" =>
          \A k \in DOMAIN parseLcov(content) :
              parseLcov(content)[k].totalLines \in Int
    /\ LcovParsed =>
          /\ Len(Records) = Len(FileBlocks)
          /\ \A k \in DOMAIN Records :
                LET lines == BlockLines(FileBlocks[k])
                IN  (CountedDA(lines) # {} \/ LinesWith(lines, <<"L", "F", ":">>) = {})
                       => /\ Records[k].totalLines = Cardinality(CountedDA(lines))
                          /\ Records[k].coveredLines = Cardinality(HitDA(lines))

\* C10 witness: a block with a hit DA line, a DA line with a malformed count
\* and a DA line with a single field gave a record of 1 covered line of 2.
C10_Witness ==
    /\ LcovParsed
    /\ Len(Records) = 1
    /\ LET lines == BlockLines(FileBlocks[1])
       IN  /\ Cardinality(LinesWith(lines, <<"D", "A", ":">>)) = 3
           /\ Cardinality(CountedDA(lines)) = 2
           /\ Cardinality(HitDA(lines)) = 1
    /\ Records[1].totalLines = 2
    /\ Records[1].coveredLines = 1

\* The LH and LF values of a block as the fallback reads them.
SummaryLH(lines) ==
    IF LinesWith(lines, <<"L", "H", ":">>) = {} THEN 0
    ELSE LastValue(lines, <<"L", "H", ":">>)
HasLF(lines) == LinesWith(lines, <<"L", "F", ":">>) # {}
SummaryLF(lines) == LastValue(lines, <<"L", "F", ":">>)

\* C11. In parseLcov the record of a block takes LH/LF for its counts only
\* when the block counted no DA line and an LF value is present (LH then
\* counts as 0 when absent); a block that counted at least one DA line has
\* the DA-derived counts, whatever its LH/LF lines say.
C11_FallbackPolicy ==
    LcovParsed =>
        /\ Len(Records) = Len(FileBlocks)
        /\ \A k \in DOMAIN Records :
              LET lines == BlockLines(FileBlocks[k])
                  fromDA == /\ Records[k].totalLines = Cardinality(CountedDA(lines))
                            /\ Records[k].coveredLines = Cardinality(HitDA(lines))
                  fromSummary == /\ Records[k].totalLines = SummaryLF(lines)
                                 /\ Records[k].coveredLines = SummaryLH(lines)
              IN  /\ CountedDA(lines) # {} => fromDA
                  /\ (CountedDA(lines) = {} /\ HasLF(lines)) => fromSummary
                  /\ ~fromDA => (CountedDA(lines) = {} /\ HasLF(lines))

\* C11 witness: a block that counted a DA line and has an LF line of another
\* value gave a record with the DA-derived total.
C11_Witness ==
    /\ LcovParsed
    /\ \E k \in DOMAIN Records :
          LET lines == BlockLines(FileBlocks[k])
          IN  /\ CountedDA(lines) # {}
              /\ HasLF(lines)
              /\ SummaryLF(lines) # Cardinality(CountedDA(lines))
              /\ Records[k].totalLines = Cardinality(CountedDA(lines))

\* C12. parseLcov returns exactly one record per block that names a file, in
\* the order of the blocks, with the path of the block; blocks that repeat a
\* path are neither merged nor dropped, and a block without a path gives no
\* record.
C12_OneRecordPerBlock ==
    LcovParsed =>
        /\ Len(Records) = Len(FileBlocks)
        /\ \A k \in DOMAIN Records :
              Records[k].file = BlockFile(BlockLines(FileBlocks[k]))

\* C12 witness: a text of a block without a path and two blocks of the same
\* path gave two records of that path.
C12_Witness ==
    /\ LcovParsed
    /\ Len(Split(content, EndOfRecord)) > Len(FileBlocks)
    /\ Len(Records) = 2
    /\ Records[1].file = Records[2].file

\* What a Go cover profile says, line by line: the fields of a line are its
\* last word (hit count), the word before (statement count) and, of what is
\* left, the part before the first colon (file path).
GoText == Split(content, Newline)
GoFields(raw) ==
    LET line == Trim(raw)
        s1 == LastIndexOf(line, <<" ">>)
        rest == Slice(line, 0, s1)
        s2 == LastIndexOf(rest, <<" ">>)
        range == Slice(rest, 0, s2)
    IN  [isData |-> line # <<>> /\ ~StartsWith(line, <<"m", "o", "d", "e", ":">>)
                      /\ s1 # -1 /\ s2 # -1 /\ IndexOf(range, <<":">>) # -1,
         file |-> Slice(range, 0, IndexOf(range, <<":">>)),
         numStmts |-> ParseInt(SliceFrom(rest, s2 + 1)),
         count |-> ParseInt(SliceFrom(line, s1 + 1))]
\* The lines parseGoCover takes in.
GoParsed ==
    {i \in DOMAIN GoText :
        /\ GoFields(GoText[i]).isData
        /\ GoFields(GoText[i]).numStmts # NaN
        /\ GoFields(GoText[i]).count # NaN}
GoLinesOf(path) == {i \in GoParsed : GoFields(GoText[i]).file = path}
GoHitLinesOf(path) == {i \in GoLinesOf(path) : GoFields(GoText[i]).count > 0}
RECURSIVE StmtSum(_)
StmtSum(S) ==
    IF S = {} THEN 0
    ELSE LET i == CHOOSE j \in S : TRUE
         IN  GoFields(GoText[i]).numStmts + StmtSum(S \ {i})

GoParsedDone == ParseDone /\ tool = "go"

\* C13. parseGoCover groups the parsed lines by file path: the totalLines of
\* a file is the sum of the statement counts of its lines, its coveredLines
\* the sum of the statement counts of its lines with a hit count > 0 (how
\* large the hit count is and the mode line play no part); so coveredLines <=
\* totalLines for every record when no statement count is negative.
C13_GoAggregation ==
    GoParsedDone =>
        /\ \A k \in DOMAIN Records :
              /\ GoLinesOf(Records[k].file) # {}
              /\ Records[k].totalLines = StmtSum(GoLinesOf(Records[k].file))
              /\ Records[k].coveredLines = StmtSum(GoHitLinesOf(Records[k].file))
        /\ \A i \in GoParsed :
              \E k \in DOMAIN Records : Records[k].file = GoFields(GoText[i]).file
        /\ (\A i \in GoParsed : GoFields(GoText[i]).numStmts >= 0)
              => \A k \in DOMAIN Records :
                    Records[k].coveredLines <= Records[k].totalLines

\* C13 witness: a profile with a mode line, a hit line of two statements and
\* a missed line of one statement of the same file gave 2 covered of 3.
C13_Witness ==
    /\ GoParsedDone
    /\ \E i \in DOMAIN GoText : StartsWith(GoText[i], <<"m", "o", "d", "e", ":">>)
    /\ \E k \in DOMAIN Records :
          /\ Cardinality(GoLinesOf(Records[k].file)) = 2
          /\ Records[k].totalLines = 3
          /\ Records[k].coveredLines = 2

Rendered == ~IsNull(markdown)
TextLines == Split(Get(markdown), Newline)
Fence == <<Backtick, Backtick, Backtick>>
FencesOf(lines) == {i \in DOMAIN lines : lines[i] = Fence}
NthOf(S, n) == CHOOSE i \in S : Cardinality({j \in S : j <= i}) = n
BlockOf(lines, k) ==
    LET fences == FencesOf(lines)
    IN  SubSeq(lines, NthOf(fences, 2 * k - 1) + 1, NthOf(fences, 2 * k) - 1)
EndsWith(s, tail) ==
    Len(tail) <= Len(s) /\ SubSeq(s, Len(s) - Len(tail) + 1, Len(s)) = tail

\* X.XX of a non-negative amount of hundredths.
TwoDecimals(x) ==
    DigitString(x \div 100) \o <<".">>
        \o (IF x % 100 < 10 THEN <<"0">> ELSE <<>>) \o DigitString(x % 100)

\* The delta suffix as the renderer's contract words it.
DeltaSuffix(delta, colorize) ==
    IF IsNull(delta) THEN <<>>
    ELSE IF colorize
    THEN IF Get(delta) > 0 THEN <<" ", "[", "+", "]", " ", "+">> \o TwoDecimals(Get(delta)) \o <<"%">>
         ELSE IF Get(delta) < 0 THEN <<" ", "[", "-", "]", " ", "-">> \o TwoDecimals(-Get(delta)) \o <<"%">>
         ELSE <<>>
    ELSE IF Get(delta) >= 0 THEN <<" ", "(", "+">> \o TwoDecimals(Get(delta)) \o <<"%", ")">>
         ELSE <<" ", "(", "-">> \o TwoDecimals(-Get(delta)) \o <<"%", ")">>

ToolLabelOf(t) == IF t = BunTool THEN <<"B", "u", "n">> ELSE IF t = GoTool THEN <<"G", "o">> ELSE t
SummaryLineOf(report, colorize) ==
    ToolLabelOf(report.tool) \o <<" ", "C", "o", "v", "e", "r", "a", "g", "e", ":", " ">> \o TwoDecimals(report.summary.percent)
        \o <<"%">> \o DeltaSuffix(report.summary.delta, colorize)
OverallLineOf(overall, colorize) ==
    <<"*", "*", "T", "o", "t", "a", "l", " ", "C", "o", "v", "e", "r", "a", "g", "e", ":", " ">> \o TwoDecimals(overall.percent) \o <<"%">>
        \o DeltaSuffix(overall.delta, colorize) \o <<"*", "*">>

RenderDone == pc = "rendered" /\ Rendered
Colorize == Get(cfg).colorize

\* C15. The delta suffix of every file row, of every tool summary line and of
\* the overall line is: nothing for a null delta; with colorize on,
\* " [+] +X.XX%" for a positive delta, " [-] -X.XX%" for a negative one and
\* nothing for zero; with colorize off, " (+X.XX%)" or " (-X.XX%)" for every
\* non-null delta, zero included, and no "[+]" or "[-]" anywhere.
C15_DeltaSuffix ==
    RenderDone =>
      LET lines == TextLines
      IN
        /\ Cardinality(FencesOf(lines)) = 2 * Len(toolReports)
        /\ \A k \in DOMAIN toolReports :
              LET report == toolReports[k]
                  block == BlockOf(lines, k)
              IN  /\ Len(block) = Len(report.files) + 2
                  /\ \A i \in DOMAIN report.files :
                        EndsWith(block[i],
                                 <<")", " ">> \o report.files[i].file
                                     \o DeltaSuffix(report.files[i].delta, Colorize))
                  /\ block[Len(block)] = SummaryLineOf(report, Colorize)
        /\ Len(toolReports) > 1 =>
              \E i \in DOMAIN lines :
                  lines[i] = OverallLineOf(buildFullReport(toolReports).overall, Colorize)
        /\ ~Colorize => /\ ~Includes(Get(markdown), <<"[", "+", "]">>)
                        /\ ~Includes(Get(markdown), <<"[", "-", "]">>)

\* C15 witness: a colorized rendering of two tools, one with a file that went
\* up and one with a file that went down, whose overall delta is zero.
C15_Witness ==
    /\ RenderDone
    /\ Colorize
    /\ Len(toolReports) = 2
    /\ \E k \in DOMAIN toolReports :
          Len(toolReports[k].files) = 1 /\ toolReports[k].files[1].delta = Some(6667)
    /\ \E k \in DOMAIN toolReports :
          Len(toolReports[k].files) = 1 /\ toolReports[k].files[1].delta = Some(-6667)
    /\ buildFullReport(toolReports).overall.delta = Some(0)
    /\ Includes(Get(markdown), <<" ", "[", "+", "]", " ", "+", "6", "6", ".", "6", "7", "%">>)
    /\ Includes(Get(markdown), <<" ", "[", "-", "]", " ", "-", "6", "6", ".", "6", "7", "%">>)

\* The lines of a text that start with a prefix.
LinesStarting(lines, prefix) == {i \in DOMAIN lines : StartsWith(lines[i], prefix)}

\* C16. renderReport emits the bold "**Total Coverage: <percent>%<suffix>**"
\* line if and only if the report has more than one tool; with no tool or one
\* tool the text has no Total Coverage line.
C16_TotalLineIffSeveralTools ==
    RenderDone =>
      LET lines == TextLines
          total == LinesStarting(lines, <<"*", "*", "T", "o", "t", "a", "l", " ", "C", "o", "v", "e", "r", "a", "g", "e", ":", " ">>)
      IN  /\ Includes(Get(markdown), <<"T", "o", "t", "a", "l", " ", "C", "o", "v", "e", "r", "a", "g", "e">>) <=> Len(toolReports) > 1
          /\ Cardinality(total) = IF Len(toolReports) > 1 THEN 1 ELSE 0
          /\ \A i \in total : EndsWith(lines[i], <<"*", "*">>)

\* C16 witness: a report of two tools was rendered with its Total Coverage
\* line after the two tool blocks.
C16_Witness ==
    /\ RenderDone
    /\ Len(toolReports) = 2
    /\ \E i \in LinesStarting(TextLines, <<"*", "*", "T", "o", "t", "a", "l", " ", "C", "o", "v", "e", "r", "a", "g", "e", ":", " ">>) :
          \A j \in FencesOf(TextLines) : j < i

\* C18 as stated: called with a commitInfo, renderReport gives a text with
\* "[Commit <first 7 characters of sha>]" and the URL
\* "https://github.com/<owner>/<repo>/commit/<sha>"; called without one, a
\* text without "[Commit".
C18_AsStated ==
    RenderDone =>
        IF IsNull(Get(cfg).commitInfo)
        THEN ~Includes(Get(markdown), <<"[", "C", "o", "m", "m", "i", "t">>)
        ELSE LET ci == Get(Get(cfg).commitInfo)
             IN  /\ Includes(Get(markdown), <<"[", "C", "o", "m", "m", "i", "t", " ">> \o SubSeq(ci.sha, 1, 7) \o <<"]">>)
                 /\ Includes(Get(markdown),
                             <<"h", "t", "t", "p", "s", ":", "/", "/", "g", "i", "t", "h", "u", "b", ".", "c", "o", "m", "/">> \o ci.owner \o <<"/">> \o ci.repo
                                 \o <<"/", "c", "o", "m", "m", "i", "t", "/">> \o ci.sha)

\* C19 as stated: snapshots are saved under {prefix}-{tool}-{branch}-{sha}
\* and a restore for (tool, baseBranch) only ever returns a snapshot that was
\* saved for that tool on baseBranch, never one saved on another branch.
C19_AsStated ==
    /\ \A i \in DOMAIN cache :
          cache[i].key = Join(<<KeyPrefix, cache[i].data.tool, cache[i].data.branch,
                                cache[i].data.commitSha>>, <<"-">>)
    /\ (~IsNull(restored) /\ ~IsNull(Get(restored).artifact)) =>
          /\ Get(Get(restored).artifact).tool = Get(restored).tool
          /\ Get(Get(restored).artifact).branch = Get(restored).baseBranch

\* The comments of the pull request that contain the marker.
Sticky == {i \in DOMAIN comments : Includes(comments[i].body, Marker)}
RunsDone == Get(cfg).runs

\* C20. Starting from a pull request with no comment that contains the
\* marker, after any sequence of runs that each render a report with the
\* marker and upsert it, exactly one comment contains the marker: the
\* rendered body contains the marker, the first upsert creates the comment
\* and every later upsert updates that same comment (created = false, same
\* id), which is the first listed comment with the marker.
C20_SingleStickyComment ==
    /\ [](pc = "pr" =>
            /\ RunsDone = 0 => Sticky = {}
            /\ RunsDone > 0 =>
                  /\ Includes(Get(markdown), Marker)
                  /\ Cardinality(Sticky) = 1
                  /\ \A i \in Sticky :
                        /\ comments[i].id = Get(commentResult).commentId
                        /\ comments[i].body = Get(markdown)
                  /\ Get(commentResult).created <=> RunsDone = 1)
    /\ [][(pc = "pr" /\ ~IsNull(commentResult)) =>
             /\ Get(commentResult').commentId = Get(commentResult).commentId
             /\ Get(cfg').runs # Get(cfg).runs =>
                   /\ Len(comments') = Len(comments)
                   /\ ~Get(commentResult').created]_vars

\* C20 witness: after three runs and the comments of others before and after
\* the first run, the one comment with the marker is the second of three.
C20_Witness ==
    /\ pc = "pr"
    /\ RunsDone = 3
    /\ Len(comments) = 3
    /\ Sticky = {2}
    /\ ~Get(commentResult).created

\* A run of two inputs has ended; k is the input whose artifact is
\* unavailable and the other input's artifact is populated.
RunDone == pc = "done" /\ Rendered
Unavailable(input) ==
    \/ ~FileAt(input.path).exists
    \/ ~FileAt(input.path).readable
    \/ Trim(FileAt(input.path).content) = <<>>
    \/ input.tool \notin {BunTool, LcovTool, GoTool, GocoverTool}
OneUnavailable(k) ==
    /\ RunDone
    /\ Len(Get(inputs)) = 2
    /\ k \in 1..2
    /\ Unavailable(Get(inputs)[k])
    /\ ~Unavailable(Get(inputs)[3 - k])
WarningLineOf(report) == <<"W", "A", "R", "N", "I", "N", "G", ":", " ">> \o report.warnings[1]

\* What the claim says of everything but the unavailable tool's block: both
\* tools are reported in input order, the unavailable one with no head
\* records and one warning, the other block has its rows and its summary
\* line, and the overall counts are the populated tool's.
RestOfRun(lines, k) ==
    LET bad == toolReports[k]
        good == toolReports[3 - k]
        block == BlockOf(lines, 3 - k)
        overall == Get(fullReport).overall
    IN  /\ Len(toolReports) = 2
        /\ \A i \in 1..2 : toolReports[i].tool = Get(inputs)[i].tool
        /\ Cardinality(FencesOf(lines)) = 4
        /\ bad.summary.coveredLines = 0
        /\ bad.summary.totalLines = 0
        /\ \A i \in DOMAIN bad.files : bad.files[i].totalLines = 0
        /\ Len(bad.warnings) = 1
        /\ good.warnings = <<>>
        /\ Len(good.files) > 0
        /\ Len(block) = Len(good.files) + 2
        /\ \A i \in DOMAIN good.files :
              EndsWith(block[i], <<" ">> \o good.files[i].file
                                   \o DeltaSuffix(good.files[i].delta, Colorize))
        /\ block[Len(block) - 1] = <<>>
        /\ block[Len(block)] = SummaryLineOf(good, Colorize)
        /\ LinesStarting(block, <<"W", "A", "R", "N", "I", "N", "G", ":", " ">>) = {}
        /\ overall.coveredLines = good.summary.coveredLines
        /\ overall.totalLines = good.summary.totalLines
        /\ overall.percent = good.summary.percent

\* C17 as stated: the unavailable tool's block is its one "WARNING: " line
\* and nothing else, with no file rows and no summary line, and the rest of
\* the run is as above.
C17_AsStated ==
    \A k \in 1..2 :
      OneUnavailable(k) =>
        LET lines == TextLines
        IN  /\ RestOfRun(lines, k)
            /\ BlockOf(lines, k) = <<WarningLineOf(toolReports[k]), <<>>>>

\* C17. When one tool's artifact is unavailable (missing, empty, unreadable
\* or of an unknown tool) and the other tool's artifact is populated, the
\* run reports both tools in input order; the unavailable tool's report has
\* no head records and exactly one warning, rendered verbatim as the one
\* "WARNING: " line of its block; the other block has its rows and summary
\* line; the overall coveredLines, totalLines and percent are the populated
\* tool's. The unavailable tool's block has no file rows and no summary line
\* when no base snapshot with files was restored for it; when one was, the
\* warning line is followed by one row per base file, a blank line and the
\* tool's summary line.
C17_UnavailableArtifact ==
    \A k \in 1..2 :
      OneUnavailable(k) =>
        LET lines == TextLines
            bad == toolReports[k]
            block == BlockOf(lines, k)
            n == Len(bad.files)
        IN  /\ RestOfRun(lines, k)
            /\ block[1] = WarningLineOf(bad)
            /\ LinesStarting(block, <<"W", "A", "R", "N", "I", "N", "G", ":", " ">>) = {1}
            /\ (n = 0) <=> IsNull(bad.summary.baseTotalLines)
            /\ IF n = 0
               THEN block = <<WarningLineOf(bad), <<>>>>
               ELSE /\ Len(block) = n + 3
                    /\ \A i \in 1..n :
                          EndsWith(block[i + 1],
                                   <<"(", "0", "/", "0", ")", " ">> \o bad.files[i].file
                                       \o DeltaSuffix(bad.files[i].delta, Colorize))
                    /\ block[n + 2] = <<>>
                    /\ block[n + 3] = SummaryLineOf(bad, Colorize)

\* C17 witness: a run ended whose first input was a missing bun artifact
\* with a base snapshot in the store and whose second input was a populated
\* go artifact.
C17_Witness ==
    /\ OneUnavailable(1)
    /\ ~FileAt(Get(inputs)[1].path).exists
    /\ Len(toolReports[1].files) > 0
    /\ Len(toolReports[2].files) > 0
    /\ toolReports[2].tool = GoTool

\* The synthetic record of a deleted file has totalLines 0 and percent 0; a
\* head record with totalLines 0 has percent 100.
IsSynthetic(d) == d.totalLines = 0 /\ d.percent = 0

\* C28. For any head list and non-null base list, computeFileDiffs returns
\* |head| + |{base records whose path is in no head record}| records: the
\* records that are not synthetic are the head records, one for each head
\* record also when head records share a path; the synthetic records of a
\* path are as many as the base records of that path when the path is in no
\* head record, and none when it is.
C28_ResultCardinality ==
    (DiffDone /\ BaseGiven) =>
      LET result == DiffResult
          base == BaseList
          unmatched == {i \in DOMAIN base : ~InHead(base[i].file)}
      IN  /\ Len(result) = Len(headFiles) + Cardinality(unmatched)
          /\ \A h \in FileRecords :
                Cardinality({k \in DOMAIN result :
                                ~IsSynthetic(result[k]) /\ OwnFields(result[k]) = h})
                  = Cardinality({j \in DOMAIN headFiles : headFiles[j] = h})
          /\ \A p \in Paths :
                Cardinality({k \in DOMAIN result :
                                IsSynthetic(result[k]) /\ result[k].file = p})
                  = IF InHead(p) THEN 0
                    ELSE Cardinality({i \in DOMAIN base : base[i].file = p})

\* C28 witness: two head records share a path and two base records share
\* another path that is in no head record; the result has four records.
C28_Witness ==
    /\ DiffDone
    /\ BaseGiven
    /\ Len(headFiles) = 2
    /\ headFiles[1].file = headFiles[2].file
    /\ Len(BaseList) = 2
    /\ BaseList[1].file = BaseList[2].file
    /\ ~InHead(BaseList[1].file)
    /\ Len(DiffResult) = 4

\* The arguments and the result of the resolvePrNumber call of SpecPr.
PrResolved == pc = "resolved"
PrOverride == ParseInt(Get(cfg).inputOverride)
OverrideGiven ==
    Get(cfg).inputOverride # <<>> /\ PrOverride # NaN /\ PrOverride > 0
OnPullRequest == Get(cfg).context.eventName \in PullRequestEvents
PayloadNumber ==
    IF IsNull(Get(cfg).context.pullRequest) THEN Null
    ELSE Get(Get(cfg).context.pullRequest).number
RunPullRequests ==
    IF Get(cfg).context.eventName # WorkflowRunEvent THEN <<>>
    ELSE IF IsNull(Get(cfg).context.workflowRun) THEN <<>>
    ELSE IF IsNull(Get(Get(cfg).context.workflowRun).pull_requests) THEN <<>>
    ELSE Get(Get(Get(cfg).context.workflowRun).pull_requests)
LookupFindsNothing ==
    Get(cfg).token = <<>> \/ IsNull(Get(cfg).listed) \/ Get(Get(cfg).listed) = <<>>

\* C25. resolvePrNumber follows a strict priority chain: an override that
\* parses to a positive integer is returned whatever the event; otherwise a
\* pull_request or pull_request_target event gives the payload's pull
\* request number; otherwise a workflow_run event with a first entry in
\* workflow_run.pull_requests gives that entry's number; otherwise, when no
\* token is given or the lookup fails or finds nothing, the result is
\* undefined. The call always returns.
C25_PriorityChain ==
    PrResolved =>
      IF OverrideGiven THEN prNumber = Some(PrOverride)
      ELSE IF OnPullRequest THEN prNumber = PayloadNumber
      ELSE IF RunPullRequests # <<>> THEN prNumber = Some(RunPullRequests[1])
      ELSE LookupFindsNothing => prNumber = Null

\* C25 witness: an override of "42" was returned on a pull_request event
\* whose payload has number 99.
C25_Witness ==
    /\ PrResolved
    /\ Get(cfg).inputOverride = <<"4", "2">>
    /\ OnPullRequest
    /\ PayloadNumber = Some(99)
    /\ prNumber = Some(42)

\* The entries of the run's coverage-artifact-paths input, read off the raw
\* text: the trimmed, non-empty pieces between commas and newlines.
RawPieces ==
    LET byComma == Split(Get(cfg).raw, <<",">>)
    IN  UNION {{Trim(p) : p \in {Split(byComma[i], Newline)[j] :
                                    j \in DOMAIN Split(byComma[i], Newline)}} :
               i \in DOMAIN byComma} \ {<<>>}
HasColon(entry) == \E i \in DOMAIN entry : entry[i] = ":"
BadEntries == {e \in RawPieces : ~HasColon(e)}
EventsOf(ops) == {i \in DOMAIN log : log[i].op \in ops}

\* C21. If an entry of the coverage-artifact-paths input lacks the colon,
\* the only step of the run is the one that fails it: the run ends failed
\* and has parsed no artifact, restored and saved no snapshot, set no output
\* and upserted no comment, also when other entries are valid.
C21_FatalConfiguration ==
    /\ []((BadEntries # {} /\ pc # "start") =>
            /\ pc = "done"
            /\ failed
            /\ IsNull(inputs)
            /\ toolReports = <<>>
            /\ IsNull(results)
            /\ IsNull(restored)
            /\ outputs = NoOutputs
            /\ comments = <<>>
            /\ IsNull(commentResult)
            /\ log = <<Event("setFailed", 0, <<>>)>>)
    /\ [][(pc = "start" /\ BadEntries # {}) =>
            /\ pc' = "done"
            /\ cache' = cache
            /\ comments' = comments
            /\ outputs' = outputs]_vars

\* C21 witness: a run whose input has a valid entry and an entry without
\* colon has ended failed.
C21_Witness ==
    /\ pc = "done"
    /\ failed
    /\ BadEntries # {}
    /\ RawPieces \ BadEntries # {}
    /\ IsNull(inputs)

\* A run with a structurally valid configuration has ended.
ValidRunDone == pc = "done" /\ BadEntries = {}
OverallPercent == Get(fullReport).overall.percent
FirstOf(S) == CHOOSE i \in S : \A j \in S : i <= j
OutputEvents(name) == {i \in DOMAIN log : log[i] = Event("setOutput", 0, name)}

C24_AsStated ==
    (ValidRunDone /\ \E i \in DOMAIN toolReports : \E j \in DOMAIN toolReports[i].files :
                        /\ toolReports[i].files[j].delta # Null
                        /\ Get(toolReports[i].files[j].delta) < 0)
      => outputs.coverageDecreased = Some(<<"t", "r", "u", "e">>)

\* The report built last in the run, for a head without records and a base
\* with a positive total.
LastReport == toolReports[Len(toolReports)]
EmptyHeadOnBase ==
    /\ pc \in {"loop", "done"}
    /\ toolReports # <<>>
    /\ headFiles = <<>>
    /\ LastReport.summary.baseTotalLines # Null
    /\ Get(LastReport.summary.baseTotalLines) > 0
BaseWithinTotal ==
    Get(LastReport.summary.baseCoveredLines) <= Get(LastReport.summary.baseTotalLines)

EntryEvents(op, k) == {i \in DOMAIN log : log[i].op = op /\ log[i].entry = k}
Processed == IF IsNull(inputs) THEN {} ELSE 1..Len(toolReports)
HasRecords(k) ==
    parseFile(Get(inputs)[k].tool, Get(inputs)[k].path,
              FileAt(Get(inputs)[k].path)).files # <<>>

\* C30 as stated: for each entry, in input order, the base snapshot is
\* restored before the entry's head is saved; a head is saved only when
\* parsing gave a record, so an entry with an unavailable artifact leaves
\* the store as it is; and the base used for an entry is never a snapshot
\* saved earlier in the same run.
C30_AsStated ==
    /\ [](\A k \in Processed :
            /\ Cardinality(EntryEvents("restore", k)) = 1
            /\ Cardinality(EntryEvents("save", k)) = IF HasRecords(k) THEN 1 ELSE 0
            /\ \A r \in EntryEvents("restore", k) :
                  /\ \A s \in EntryEvents("save", k) : r < s
                  /\ \A j \in 1..(k - 1) : \A e \in EntryEvents("restore", j)
                                               \cup EntryEvents("save", j) : e < r
                  /\ \A s \in EventsOf({"save"}) : s < r => log[s].key # log[r].key)
    /\ [][(Len(toolReports') > Len(toolReports) /\ ~HasRecords(Len(toolReports')))
            => cache' = cache]_vars

\* C27 as stated: when runs call upsertComment with the same marker on the
\* same pull request at the same time, so that their listings and their
\* creations or updates interleave, the pull request has at most one comment
\* that contains the marker.
C27_AsStated == pc = "race" => Cardinality(Sticky) <= 1

\* The objects the caller handed in, and the list computeFileDiffs returned.
CallerRefs == 1..Get(cfg).size
HeadItems == heap[Get(cfg).headRef].items
DiffItems == heap[Get(files)].items

\* C26. computeFileDiffs, buildToolReport and buildFullReport do not change
\* their inputs: every call leaves every object that existed before it as it
\* was, so the head list, the base list and their records keep their
\* elements, order and field values; the list computeFileDiffs returns and
\* every record in it are new objects, and the sort has ordered that list
\* only.
C26_InputsUnchanged ==
    /\ [][\A ref \in DOMAIN heap : heap'[ref] = heap[ref]]_vars
    /\ [](pc \in {"diffed", "reported", "full"} =>
            /\ Get(files) \notin CallerRefs
            /\ \A i \in DOMAIN DiffItems : DiffItems[i] \notin CallerRefs
            /\ \A i, j \in DOMAIN DiffItems : DiffItems[i] = DiffItems[j] => i = j
            /\ \A i, j \in DOMAIN DiffItems :
                  i < j => localeCompare(heap[DiffItems[i]].value.file,
                                         heap[DiffItems[j]].value.file) <= 0
            /\ \A i \in DOMAIN HeadItems : HeadItems[i] = i)
    /\ [](pc \in {"reported", "full"} =>
            /\ toolReports[1] \notin CallerRefs
            /\ heap[toolReports[1]].files \notin CallerRefs
            /\ heap[toolReports[1]].files # Get(files))

\* C26 witness: the three calls were made on a head list that is not in
\* path order ("B" before "a") and a base; the returned list is in path
\* order and the head list still has "B" first.
C26_Witness ==
    /\ pc = "full"
    /\ Len(HeadItems) = 2
    /\ heap[HeadItems[1]].value.file = <<"B">>
    /\ heap[HeadItems[2]].value.file = <<"a">>
    /\ ~IsNull(Get(cfg).artifactRef)
    /\ heap[DiffItems[1]].value.file = <<"a">>
    /\ DiffItems[1] > DiffItems[2]

====
